---- MODULE Spec2Model ----
(***************************************************************************)
(* A model of the Slack -> Obsidian sync plugin: SyncEngine (syncAll,      *)
(* syncChannel, processMessage, updateExistingThreads), FileManager        *)
(* (createIndividualNote, appendToGroupedNote, update*NoteThread) and the  *)
(* history request of SlackApiClient.                                      *)
(*                                                                         *)
(* A Slack timestamp string is represented by the number parseFloat gives  *)
(* for it; 0 is the '0' the engine substitutes for an absent cursor.       *)
(* A note's text is a sequence of tokens; the string searches of the code  *)
(* (includes, indexOf, trimEnd, trim) are computed on these sequences.     *)
(***************************************************************************)
EXTENDS Integers, Sequences, FiniteSets, TLC

\* ---------------------------------------------------------------- bounds
MaxTs       == 2   \* message timestamps are 1..MaxTs
MaxBatch    == 2   \* messages in the history page of the first channel
MaxBatch2   == 1   \* messages in the history page of every other channel
MaxPasses   == 2   \* sync passes that get past the in-progress guard
MaxFetch    == 3   \* history requests per channel per pass
MaxFailures == 1   \* failing remote / store calls and restarts per behaviour
MaxBusy     == 1   \* recorded rejected syncAll calls
MaxOps      == 3   \* direct FileManager calls in the grouped-note specification
DayLen      == 2   \* timestamps per calendar day

Undefined == -1    \* lastSyncTimestamps has no key for the channel

\* settings.channels, in configured order (ids)
ChannelIds == <<"C1", "C2">>
Chans      == {ChannelIds[k] : k \in 1..Len(ChannelIds)}
Ts         == 1..MaxTs

Max(a, b) == IF a >= b THEN a ELSE b

\* ------------------------------------------------------------- messages
\* SlackMessage: ts, thread_ts (0: none), subtype, text, user, files (their
\* number).  A text is a tuple: <<"hi">> is plain text, <<"quote", ts>> text
\* that quotes a timestamp, <<>> the empty text.
Msgs ==
  { m \in [ts : Ts, thread_ts : 0..MaxTs, subtype : {"", "channel_join"},
           text : {<<"hi">>}, user : {"U1"}, files : {0}] :
      /\ m.thread_ts < m.ts
      /\ (m.subtype = "channel_join" => m.thread_ts = 0) }

SeqsUpTo(S, n) == UNION {[1..k -> S] : k \in 0..n}

\* slackTsToDate + formatDate: the calendar day of a timestamp
DayOf(ts) == (ts - 1) \div DayLen

\* --------------------------------------------------------------- tokens
NL          == <<"NL">>                      \* "\n"
Marker(ts)  == <<"M", ts>>                   \* "<!-- ts:<ts> -->"
Entry(u, x) == <<"E", u, x>>                 \* groupedMessageTemplate applied
H4(title)   == <<"H4", title>>               \* "#### <title>"
Quote(r)    == <<"Q", r>>                    \* "> **user** (time):\n> text"
FM(authors) == <<"FM", authors>>             \* "---\n<frontmatter>\n---\n"
FMI(ts, u)  == <<"FMI", ts, u>>              \* individual note frontmatter
Text(x)     == <<"T", x>>                    \* markdown body of a note
HR3(title)  == <<"HR3", title>>              \* "---\n\n### <title>"
Para(r)     == <<"P", r>>                    \* "**user** (time):\ntext"

\* A message text may hold headings of its own: Headed is a text that goes on,
\* after its first paragraph, with "\n\n#### b\n\n---\n\n### c".  The first
\* paragraph is in the Entry / Text token, the rest are the tokens of Rest.
Headed  == <<"headed">>
BodyH4  == <<"bH4">>                         \* "#### b" inside a message text
BodyHR3 == <<"bHR3">>                        \* "---\n\n### c" inside a message text
Rest(x) == IF x = Headed THEN <<NL, NL, BodyH4, NL, NL, BodyHR3>> ELSE <<>>

\* the text x quotes timestamp ts literally
QuoteOf(ts) == <<"quote", ts>>
TextHasTs(x, ts) == x = QuoteOf(ts)

\* String.prototype.includes(message.ts) on one token
TokenHasTs(tok, ts) ==
  \/ tok[1] = "M" /\ tok[2] = ts
  \/ tok[1] = "FMI" /\ tok[2] = ts
  \/ tok[1] = "E" /\ TextHasTs(tok[3], ts)
  \/ tok[1] = "T" /\ TextHasTs(tok[2], ts)
  \/ tok[1] \in {"H4", "HR3"} /\ TextHasTs(tok[2], ts)

\* faulty variant: the search never finds the timestamp
IncludesNothing(content, ts) == FALSE

Includes(content, ts) == \E k \in 1..Len(content) : TokenHasTs(content[k], ts)

\* indexOf: 1-based position of the first match at or after from, 0 if none
FirstIn(S) == IF S = {} THEN 0 ELSE CHOOSE k \in S : \A j \in S : k <= j

IndexOfMarker(content, ts) ==
  FirstIn({k \in 1..Len(content) : content[k] = Marker(ts)})

IndexOfAnyMarker(content, from) ==
  FirstIn({k \in from..Len(content) : content[k][1] = "M"})

\* indexOf('\n\n#### ')
IndexOfThreadSub(s) ==
  FirstIn({k \in 1..(Len(s) - 2) :
             s[k] = NL /\ s[k + 1] = NL /\ s[k + 2][1] \in {"H4", "bH4"}})

\* indexOf('\n\n---\n\n### ')
IndexOfThreadSeparator(s) ==
  FirstIn({k \in 1..(Len(s) - 2) :
             s[k] = NL /\ s[k + 1] = NL /\ s[k + 2][1] \in {"HR3", "bHR3"}})

RECURSIVE TrimEnd(_)
TrimEnd(s) ==
  IF s # <<>> /\ s[Len(s)] = NL THEN TrimEnd(SubSeq(s, 1, Len(s) - 1)) ELSE s

RECURSIVE TrimStart(_)
TrimStart(s) == IF s # <<>> /\ s[1] = NL THEN TrimStart(Tail(s)) ELSE s

Trim(s) == TrimStart(TrimEnd(s))

RECURSIVE Concat(_)
Concat(ss) == IF ss = <<>> THEN <<>> ELSE Head(ss) \o Concat(Tail(ss))

\* --------------------------------------------------- slackMrkdwnToMarkdown
\* A text is a sequence of characters.  The characters told apart are a
\* letter, a space, "*", a backtick, the mention "<@U>" (one unit), the
\* encoded blockquote marker "&gt;" (one unit), and the placeholder strings
\* "\x00CODEBLOCK<k>\x00" and "\x00INLINECODE<k>\x00" (one unit each).
Letter    == <<"a">>
Space     == <<"sp">>
Star      == <<"*">>
BT        == <<"bt">>                    \* a backtick
Mention   == <<"<@U>">>
AtName    == <<"@name">>                 \* "@" and the resolved name
EncodedGt == <<"&gt;">>
Gt        == <<">">>
Undefd    == <<"undefined">>             \* the text "undefined"
CB(k)     == <<"CB", k>>                 \* "\x00CODEBLOCK<k>\x00"
IC(k)     == <<"IC", k>>                 \* "\x00INLINECODE<k>\x00"
Fence     == <<BT, BT, BT>>              \* "```"

IsFenceAt(s, i) ==
  i + 2 <= Len(s) /\ s[i] = BT /\ s[i + 1] = BT /\ s[i + 2] = BT

\* replace(/```([\s\S]*?)```/g, ...): from position i on, with the text
\* produced so far and the table codeBlocks
RECURSIVE ExtractFenced(_, _, _, _)
ExtractFenced(s, i, acc, codeBlocks) ==
  IF i > Len(s) THEN [text |-> acc, table |-> codeBlocks]
  ELSE LET closes == {j \in (i + 3)..Len(s) : IsFenceAt(s, j)}
       IN  IF IsFenceAt(s, i) /\ closes # {}
           THEN ExtractFenced(s, FirstIn(closes) + 3,
                              Append(acc, CB(Len(codeBlocks))),
                              Append(codeBlocks,
                                     SubSeq(s, i + 3, FirstIn(closes) - 1)))
           ELSE ExtractFenced(s, i + 1, Append(acc, s[i]), codeBlocks)

\* replace(/`([^`]+)`/g, ...): from position i on
RECURSIVE ExtractInline(_, _, _, _)
ExtractInline(s, i, acc, inlineCode) ==
  IF i > Len(s) THEN [text |-> acc, table |-> inlineCode]
  ELSE LET later == {j \in (i + 1)..Len(s) : s[j] = BT}
       IN  IF s[i] = BT /\ later # {} /\ FirstIn(later) > i + 1
           THEN ExtractInline(s, FirstIn(later) + 1,
                              Append(acc, IC(Len(inlineCode))),
                              Append(inlineCode,
                                     SubSeq(s, i + 1, FirstIn(later) - 1)))
           ELSE ExtractInline(s, i + 1, Append(acc, s[i]), inlineCode)

\* replace(/<@([A-Z0-9]+)>/g, ...)
ConvertMentions(s) ==
  [k \in 1..Len(s) |-> IF s[k] = Mention THEN AtName ELSE s[k]]

\* replace(/(^|\s)\*([^*\n]+)\*(\s|$|[.,!?;:])/g, '$1**$2**$3'): from
\* position i on
RECURSIVE ConvertBold(_, _, _)
ConvertBold(s, i, acc) ==
  IF i > Len(s) THEN acc
  ELSE LET open  == IF i = 1 /\ s[1] = Star THEN 1
                    ELSE IF s[i] = Space /\ i + 1 <= Len(s) /\ s[i + 1] = Star
                    THEN i + 1 ELSE 0
           stars == {j \in (open + 1)..Len(s) : s[j] = Star}
           close == FirstIn(stars)
       IN  IF /\ open # 0
              /\ stars # {}
              /\ close > open + 1
              /\ (close = Len(s) \/ s[close + 1] = Space)
           THEN ConvertBold(s, close + 2,
                  acc \o SubSeq(s, i, open - 1) \o <<Star, Star>>
                      \o SubSeq(s, open + 1, close - 1) \o <<Star, Star>>
                      \o (IF close < Len(s) THEN <<s[close + 1]>> ELSE <<>>))
           ELSE ConvertBold(s, i + 1, Append(acc, s[i]))

\* replace(/^&gt;\s?/gm, '> ') on a text of one line
ConvertBlockquote(s) ==
  IF s # <<>> /\ s[1] = EncodedGt
  THEN <<Gt, Space>>
         \o SubSeq(s, IF Len(s) >= 2 /\ s[2] = Space THEN 3 ELSE 2, Len(s))
  ELSE s

\* replace(/\x00CODEBLOCK(\d+)\x00/g, ...): '```' + codeBlocks[index] + '```'
RestoreCodeBlocks(s, codeBlocks) ==
  Concat([k \in 1..Len(s) |->
            IF s[k][1] = "CB"
            THEN Fence \o (IF s[k][2] < Len(codeBlocks)
                           THEN codeBlocks[s[k][2] + 1] ELSE <<Undefd>>)
                       \o Fence
            ELSE <<s[k]>>])

\* replace(/\x00INLINECODE(\d+)\x00/g, ...): '`' + inlineCode[index] + '`'
RestoreInlineCode(s, inlineCode) ==
  Concat([k \in 1..Len(s) |->
            IF s[k][1] = "IC"
            THEN <<BT>> \o (IF s[k][2] < Len(inlineCode)
                            THEN inlineCode[s[k][2] + 1] ELSE <<Undefd>>)
                        \o <<BT>>
            ELSE <<s[k]>>])

SlackMrkdwnToMarkdown(text) ==
  IF text = <<>> THEN <<>>
  ELSE LET fenced == ExtractFenced(text, 1, <<>>, <<>>)
           inline == ExtractInline(fenced.text, 1, <<>>, <<>>)
           result == ConvertBlockquote(
                       ConvertBold(ConvertMentions(inline.text), 1, <<>>))
       IN  RestoreInlineCode(RestoreCodeBlocks(result, fenced.table),
                             inline.table)

\* ------------------------------------------------------------- state
\* new SlackApiClient(token): an empty userCache; and an empty userMap
NewApi(token, now) ==
  [token |-> token, now |-> now, userCache |-> <<>>, resolved |-> <<>>]

\* no text has been converted
NoText == [input |-> <<>>, once |-> <<>>, twice |-> <<>>, applied |-> 0]

VARIABLES
  enabled,             \* settings.channels[..].enabled, by the ids of the
                       \* configured channels
  groupMessagesByDate, \* settings.groupMessagesByDate
  syncThreadReplies,   \* settings.syncThreadReplies
  groupedFrontmatterTemplate,
                       \* settings.groupedFrontmatterTemplate: "default"
                       \* (source, channel, date) or "author" (with a line
                       \* author: {userName})
  lastSyncTimestamps,  \* settings.lastSyncTimestamps (Undefined: no key)
  savedTimestamps,     \* lastSyncTimestamps as last written to data.json
  isSyncing,           \* SyncEngine.isSyncing
  remote,              \* the workspace: per channel, the history page and
                       \* whether the response carries a next_cursor
  vault,               \* the note files
  call,                \* the syncAll invocations and their local variables
  passes,              \* invocations that got past the guard
  failures,            \* failed calls and restarts so far
  busy,                \* invocations rejected by the guard
  hist,                \* per channel: the last completed syncChannel
  ops,                 \* direct FileManager calls made (grouped-note specification)
                       \* and what they returned
  userMap,             \* SyncEngine.userMap: user id -> name to show
  lookups,             \* per user id, the users.info requests issued so far
  cleared,             \* Clear Sync History: how often it ran, and the number
                       \* of passes started before it last ran
  tpl,                 \* applyTemplate: a template, the variables and what the
                       \* function returned for them
  plugin,              \* SlackSyncPlugin: whether it is loaded, the auto-sync
                       \* settings, the stored token, autoSyncInterval and the
                       \* interval timers of the window
  md,                  \* slackMrkdwnToMarkdown: an input text and what the
                       \* function returned for it, applied once and twice
  api                  \* SlackApiClient: its token and its userCache (user id
                       \* -> fetchedAt); Date.now() in hours; and, for each
                       \* entry of userMap, the token and the time of the
                       \* resolveUsers call that set it

vars == <<tpl, plugin, enabled, groupMessagesByDate, syncThreadReplies,
          groupedFrontmatterTemplate, lastSyncTimestamps,
          savedTimestamps, isSyncing, remote, vault, call, passes, failures,
          busy, hist, ops, userMap, lookups, cleared, md, api>>

\* ------------------------------------------------------------ applyTemplate
\* Strings are sequences of characters.  A placeholder is "{" key "}".
NoTpl == [template |-> <<>>, userName |-> <<>>, text |-> <<>>,
          result |-> <<>>, applied |-> 0]

\* the plugin before onload: the fields of the class and DEFAULT_SETTINGS
\* (state: "new", "loaded" or "unloaded"; autoSyncInterval 0 is null; timers:
\* the active interval timers of the window, each with its id and its period
\* in minutes; created: the timer ids handed out; pending: the saveSettings
\* calls that await saveData)
NoPlugin == [state |-> "new", autoSync |-> FALSE, syncInterval |-> 30,
             token |-> "", autoSyncInterval |-> 0, timers |-> {},
             created |-> 0, pending |-> 0]

\* faulty variant: the timer that is running is left alone
KeepAutoSync(p) == p

\* clearAutoSync
ClearAutoSync(p) ==
  IF p.autoSyncInterval # 0
  THEN [p EXCEPT !.timers = {t \in @ : t.id # p.autoSyncInterval},
                 !.autoSyncInterval = 0]
  ELSE p

\* setupAutoSync: window.setInterval returns a fresh id
SetupAutoSync(p) ==
  LET q == ClearAutoSync(p)
  IN  IF q.autoSync /\ q.token # ""
      THEN [q EXCEPT !.created = @ + 1,
                     !.autoSyncInterval = q.created + 1,
                     !.timers = @ \union
                        {[id |-> q.created + 1,
                          minutes |-> Max(1, q.syncInterval)]}]
      ELSE q

KeyDate == <<"d", "a", "t", "e">>
KeyUserName == <<"u", "s", "e", "r", "N", "a", "m", "e">>
KeyText == <<"t", "e", "x", "t">>

Placeholder(key) == <<"{">> \o key \o <<"}">>

\* s.slice(i - 1), for i from 1 to Len(s) + 1
SliceFrom(s, i) == IF i > Len(s) THEN <<>> ELSE SubSeq(s, i, Len(s))

\* the pattern matches the string at position i
MatchAt(s, pattern, i) ==
  /\ i + Len(pattern) - 1 <= Len(s)
  /\ SubSeq(s, i, i + Len(pattern) - 1) = pattern

\* String.prototype.replace expands the replacement for each match: "$$" is
\* "$", "$&" the matched text, "$'" the text after the match; the pattern has
\* no capture group, so "$" before any other character stands for itself.
\* (The text before the match is written with a character the values below
\* never hold.)
RECURSIVE GetSubstitution(_, _, _, _)
GetSubstitution(replacement, j, matched, after) ==
  IF j > Len(replacement) THEN <<>>
  ELSE IF replacement[j] = "$" /\ j < Len(replacement)
       THEN CASE replacement[j + 1] = "$" ->
                   <<"$">> \o GetSubstitution(replacement, j + 2, matched, after)
              [] replacement[j + 1] = "&" ->
                   matched \o GetSubstitution(replacement, j + 2, matched, after)
              [] replacement[j + 1] = "'" ->
                   after \o GetSubstitution(replacement, j + 2, matched, after)
              [] OTHER ->
                   <<"$">> \o GetSubstitution(replacement, j + 1, matched, after)
       ELSE <<replacement[j]>>
              \o GetSubstitution(replacement, j + 1, matched, after)

\* result.replace(new RegExp("\\{key\\}", "g"), value): the matches are
\* found in the string as it was, left to right, without overlap
RECURSIVE ReplaceAll(_, _, _, _)
ReplaceAll(s, pattern, value, i) ==
  IF i > Len(s) THEN <<>>
  ELSE IF MatchAt(s, pattern, i)
       THEN GetSubstitution(value, 1, pattern, SliceFrom(s, i + Len(pattern)))
              \o ReplaceAll(s, pattern, value, i + Len(pattern))
       ELSE <<s[i]>> \o ReplaceAll(s, pattern, value, i + 1)

\* the loop of applyTemplate over Object.entries(vars), from entry k on
RECURSIVE ApplyFrom(_, _, _)
ApplyFrom(result, entries, k) ==
  IF k > Len(entries) THEN result
  ELSE ApplyFrom(ReplaceAll(result, Placeholder(entries[k].key),
                            entries[k].value, 1),
                 entries, k + 1)

ApplyTemplate(template, entries) == ApplyFrom(template, entries, 1)

\* Object.entries(messageVars): the keys of getTemplateVars in their order
\* (the date and time keys, of which date stands for all: their values are
\* digits and separators), userName with the value given to
\* appendToGroupedNote, then text
DateValue == <<"2">>

MessageVars(userName, markdownText) ==
  << [key |-> KeyDate, value |-> DateValue],
     [key |-> KeyUserName, value |-> userName],
     [key |-> KeyText, value |-> markdownText] >>

\* ---------------------------------------------------------- FileManager
\* The vault is a function from the paths of the existing files to their text.
IndPath(chan, ts)  == <<"ind", chan, ts>>     \* fileNameTemplate {date}-{channelName}-{ts}
GrpPath(chan, day) == <<"grp", chan, day>>    \* groupedFileNameTemplate {date}-{channelName}

Null == <<"null">>

\* faulty variant: the existence check never finds the file
NeverExists(v, filePath) == FALSE

\* vault.adapter.exists(filePath)
Exists(v, filePath) == filePath \in DOMAIN v
NoMatch == [ok |-> FALSE, frontmatter |-> <<>>, body |-> <<>>]

\* markdownText.split('\n')[0].trim() || 'Thread'
ThreadTitle(markdownText) == markdownText

\* parseFrontmatter: the leading "---\n...\n---\n" block and the rest, or null
ParseFrontmatter(content) ==
  IF content # <<>> /\ content[1][1] \in {"FM", "FMI"}
  THEN [ok |-> TRUE, frontmatter |-> content[1], body |-> Tail(content)]
  ELSE NoMatch

\* updateFrontmatterAuthors on the author list of a grouped frontmatter
\* (one author is written author:, two or more authors: as a list)
UpdateFrontmatterAuthors(frontmatter, newAuthor) ==
  LET existingAuthors == frontmatter[2]
  IN  IF \E k \in 1..Len(existingAuthors) : existingAuthors[k] = newAuthor
      THEN frontmatter
      ELSE FM(Append(existingAuthors, newAuthor))

\* groupedFrontmatterTemplate of DEFAULT_SETTINGS: source, channel, date
GroupedFrontmatter == FM(<<>>)

\* applyTemplate(settings.groupedFrontmatterTemplate, vars) for a new note
FrontmatterContent(userName) ==
  IF groupedFrontmatterTemplate = "author" THEN FM(<<userName>>)
  ELSE GroupedFrontmatter

\* "\n\n---\n\n### <title>\n\n" and one paragraph per reply
IndividualThreadSection(markdownText, threadReplies) ==
  <<NL, NL, HR3(ThreadTitle(markdownText)), NL, NL>>
    \o Concat([k \in 1..Len(threadReplies) |-> <<Para(threadReplies[k]), NL, NL>>])

\* "\n\n#### <title>\n\n" and one blockquote per reply
GroupedThreadPart(markdownText, threadReplies) ==
  <<NL, NL, H4(ThreadTitle(markdownText)), NL, NL>>
    \o Concat([k \in 1..Len(threadReplies) |-> <<Quote(threadReplies[k]), NL, NL>>])

\* createIndividualNote: [vault, ret], ret the created path or null
CreateIndividualNote(v, chan, message, userName, markdownText, attachmentEmbeds, threadReplies) ==
  LET filePath == IndPath(chan, message.ts)
      content  == <<FMI(message.ts, userName), Text(markdownText)>>
                    \o Rest(markdownText)
                    \o (IF attachmentEmbeds # <<>>
                        THEN <<NL, NL>> \o attachmentEmbeds ELSE <<>>)
                    \o (IF threadReplies # <<>>
                        THEN IndividualThreadSection(markdownText, threadReplies)
                        ELSE <<>>)
  IN  IF Exists(v, filePath)
      THEN [vault |-> v, ret |-> Null]
      ELSE [vault |-> [p \in DOMAIN v \cup {filePath} |->
                         IF p = filePath THEN content ELSE v[p]],
            ret |-> filePath]

\* faulty variant: no duplicate check
NeverInGroupedNote(existingContent, ts) == FALSE

\* the duplicate check of appendToGroupedNote
AlreadyInGroupedNote(existingContent, ts) == Includes(existingContent, ts)

\* appendToGroupedNote: [vault, ret], ret the file path or null
AppendToGroupedNote(v, chan, message, userName, markdownText, attachmentEmbeds, threadReplies) ==
  LET filePath     == GrpPath(chan, DayOf(message.ts))
      messageEntry == <<Marker(message.ts), NL, Entry(userName, markdownText)>>
                        \o Rest(markdownText)
                        \o (IF attachmentEmbeds # <<>>
                            THEN <<NL>> \o attachmentEmbeds ELSE <<>>)
                        \o (IF threadReplies # <<>>
                            THEN GroupedThreadPart(markdownText, threadReplies)
                            ELSE <<>>)
  IN  IF filePath \in DOMAIN v
      THEN LET existingContent == v[filePath]
               parsed          == ParseFrontmatter(existingContent)
               newContent ==
                 IF parsed.ok
                 THEN <<UpdateFrontmatterAuthors(parsed.frontmatter, userName)>>
                        \o parsed.body \o <<NL, NL>> \o messageEntry
                 ELSE existingContent \o <<NL, NL>> \o messageEntry
           IN  IF AlreadyInGroupedNote(existingContent, message.ts)
               THEN [vault |-> v, ret |-> Null]
               ELSE [vault |-> [v EXCEPT ![filePath] = newContent],
                     ret |-> filePath]
      ELSE [vault |-> [p \in DOMAIN v \cup {filePath} |->
                         IF p = filePath
                         THEN <<FrontmatterContent(userName), NL>> \o messageEntry
                         ELSE v[p]],
            ret |-> filePath]

\* newContent of updateIndividualNoteThread, for a note whose frontmatter parses
IndividualNewContent(content, markdownText, threadReplies) ==
  LET parsed         == ParseFrontmatter(content)
      threadSection  == IndividualThreadSection(markdownText, threadReplies)
      body           == parsed.body
      separatorIndex == IndexOfThreadSeparator(body)
      newBody == IF separatorIndex # 0
                 THEN SubSeq(body, 1, separatorIndex - 1) \o threadSection
                 ELSE body \o threadSection
  IN  <<parsed.frontmatter>> \o newBody

\* faulty variant: the note is rewritten whatever the new content is
NeverSameContent(newContent, content) == FALSE

\* if (newContent === content) return false
SameContent(newContent, content) == newContent = content

\* updateIndividualNoteThread: [vault, ret], ret whether the note was rewritten
UpdateIndividualNoteThread(v, chan, message, userName, markdownText, threadReplies) ==
  LET filePath == IndPath(chan, message.ts)
  IN  IF filePath \notin DOMAIN v THEN [vault |-> v, ret |-> FALSE]
      ELSE
      LET content == v[filePath]
          parsed  == ParseFrontmatter(content)
      IN  IF ~parsed.ok THEN [vault |-> v, ret |-> FALSE]
          ELSE
          LET newContent == IndividualNewContent(content, markdownText,
                                                 threadReplies)
          IN  IF SameContent(newContent, content)
              THEN [vault |-> v, ret |-> FALSE]
              ELSE [vault |-> [v EXCEPT ![filePath] = newContent], ret |-> TRUE]

\* newContent of updateGroupedNoteThread, for a note that holds the marker of ts
GroupedNewContent(content, ts, markdownText, threadReplies) ==
  LET markerIndex     == IndexOfMarker(content, ts)
      nextMarkerIndex == IndexOfAnyMarker(content, markerIndex + 1)
      sectionEnd      == IF nextMarkerIndex # 0 THEN nextMarkerIndex
                         ELSE Len(content) + 1
      sectionContent  == SubSeq(content, markerIndex + 1, sectionEnd - 1)
      threadPart      == GroupedThreadPart(markdownText, threadReplies)
      threadSubIndex  == IndexOfThreadSub(sectionContent)
      newSection ==
        IF threadSubIndex # 0
        THEN <<Marker(ts)>>
               \o SubSeq(sectionContent, 1, threadSubIndex - 1) \o threadPart
        ELSE <<Marker(ts)>> \o TrimEnd(sectionContent) \o threadPart
  IN  SubSeq(content, 1, markerIndex - 1)
        \o newSection
        \o (IF nextMarkerIndex # 0 THEN <<NL>> ELSE <<>>)
        \o SubSeq(content, sectionEnd, Len(content))

\* updateGroupedNoteThread: [vault, ret], ret whether the note was rewritten
UpdateGroupedNoteThread(v, chan, message, userName, markdownText, threadReplies) ==
  LET filePath == GrpPath(chan, DayOf(message.ts))
  IN  IF filePath \notin DOMAIN v THEN [vault |-> v, ret |-> FALSE]
      ELSE
      LET content     == v[filePath]
          markerIndex == IndexOfMarker(content, message.ts)
      IN  IF markerIndex = 0 THEN [vault |-> v, ret |-> FALSE]
          ELSE
          LET newContent == GroupedNewContent(content, message.ts, markdownText,
                                              threadReplies)
          IN  IF Trim(newContent) = Trim(content)
              THEN [vault |-> v, ret |-> FALSE]
              ELSE [vault |-> [v EXCEPT ![filePath] = newContent], ret |-> TRUE]

\* String(counter)
Digits == <<"1", "2", "3", "4", "5", "6", "7", "8", "9">>

\* the attachment folder of the channel, and a file in it
AttPath(chan, name) == <<"att", chan, name>>

\* faulty variant: the name is split at its first dot
IndexOfDot(name) ==
  IF \E k \in 1..Len(name) : name[k] = "."
  THEN FirstIn({k \in 1..Len(name) : name[k] = "."}) ELSE 0

\* sanitized.lastIndexOf('.'), 0 for -1
LastIndexOfDot(name) ==
  IF \E k \in 1..Len(name) : name[k] = "."
  THEN CHOOSE k \in 1..Len(name) :
         name[k] = "." /\ \A j \in (k + 1)..Len(name) : name[j] # "."
  ELSE 0

\* `${name}_${counter}${ext}`, or `${sanitized}_${counter}` without a dot
Suffixed(sanitized, counter) ==
  LET dotIndex == LastIndexOfDot(sanitized)
  IN  IF dotIndex # 0
      THEN SubSeq(sanitized, 1, dotIndex - 1) \o <<"_", Digits[counter]>>
             \o SubSeq(sanitized, dotIndex, Len(sanitized))
      ELSE sanitized \o <<"_", Digits[counter]>>

\* while (await this.vault.adapter.exists(filePath)) { ...; counter++ }:
\* the path the loop ends with and the number of exists calls
RECURSIVE ProbeFrom(_, _, _, _, _)
ProbeFrom(v, chan, sanitized, name, counter) ==
  IF Exists(v, AttPath(chan, name))
  THEN ProbeFrom(v, chan, sanitized, Suffixed(sanitized, counter), counter + 1)
  ELSE [filePath |-> AttPath(chan, name), probes |-> counter]

\* saveAttachment: [vault, ret, probes], ret the path of the new file
SaveAttachment(v, data, fileName, chan) ==
  LET found == ProbeFrom(v, chan, fileName, fileName, 1)
  IN  [vault  |-> [p \in DOMAIN v \cup {found.filePath} |->
                     IF p = found.filePath THEN <<<<"blob", data>>>> ELSE v[p]],
       ret    |-> found.filePath,
       probes |-> found.probes]

\* ----------------------------------------------------------- SyncEngine

Invs == 1..2

\* parseFloat(oldest || '0')
Num(cursor) == IF cursor = Undefined THEN 0 ELSE cursor

\* shouldSkipMessage
ShouldSkipMessage(message) ==
  \/ message.subtype \in {"channel_join"}
  \/ message.text = <<>> /\ message.files = 0

\* isStandaloneFileUpload: files and no text
IsStandaloneFileUpload(message) ==
  message.files > 0 /\ message.text = <<>>

\* message.files.map(f => f.title || f.name).join(', ')
FileDesc == <<"file">>

\* file.name of the file of a message, and the data behind its download url
FileName == <<"a", ".", "p">>
FileData(message) == "d1"

\* createEmbed: `![[${filePath}]]`
Embed(filePath) == <<"embed", filePath>>

\* faulty variant: no message is taken for a reply
IsNeverReply(message) == FALSE

\* message.thread_ts && message.thread_ts !== message.ts
IsThreadReply(message) ==
  message.thread_ts # 0 /\ message.thread_ts # message.ts

\* allMessages.sort((a, b) => parseFloat(a.ts) - parseFloat(b.ts)), stable
RECURSIVE Insert(_, _)
Insert(sorted, m) ==
  IF sorted = <<>> THEN <<m>>
  ELSE IF sorted[Len(sorted)].ts <= m.ts THEN Append(sorted, m)
  ELSE Append(Insert(SubSeq(sorted, 1, Len(sorted) - 1), m), sorted[Len(sorted)])

\* faulty variant: the batch is left in the order of the pages
Unsorted(msgs) == msgs

RECURSIVE SortByTs(_)
SortByTs(msgs) ==
  IF msgs = <<>> THEN <<>>
  ELSE Insert(SortByTs(SubSeq(msgs, 1, Len(msgs) - 1)), msgs[Len(msgs)])

\* a Set in insertion order: s with x added at the end unless present
AddOnce(s, x) == IF \E k \in 1..Len(s) : s[k] = x THEN s ELSE Append(s, x)

\* the first pass over the batch: threadParentTsToUpdate, in insertion order,
\* without the parents that are in the batch themselves
RECURSIVE ReplyParents(_)
ReplyParents(msgs) ==
  IF msgs = <<>> THEN <<>>
  ELSE LET rest == ReplyParents(SubSeq(msgs, 1, Len(msgs) - 1))
           m    == msgs[Len(msgs)]
       IN  IF ~ShouldSkipMessage(m) /\ IsThreadReply(m)
           THEN AddOnce(rest, m.thread_ts) ELSE rest

ParentTsInBatch(msgs) ==
  {msgs[k].ts : k \in {j \in 1..Len(msgs) :
                         ~ShouldSkipMessage(msgs[j]) /\ ~IsThreadReply(msgs[j])}}

\* faulty variant: the parents of the batch are not taken out
AllReplyParents(msgs) == ReplyParents(msgs)

ThreadParentTsToUpdate(msgs) ==
  SelectSeq(ReplyParents(msgs), LAMBDA ts : ts \notin ParentTsInBatch(msgs))

\* faulty variant: let latestTs = '0'
LatestFromZero(oldest) == 0

\* let latestTs = oldest || '0'
InitialLatestTs(oldest) == IF oldest = Undefined THEN 0 ELSE oldest

\* if (parseFloat(message.ts) > parseFloat(latestTs)) latestTs = message.ts
TrackLatest(latestTs, ts) == IF ts > latestTs THEN ts ELSE latestTs

\* faulty variant: latestTs is tracked inside the try block, which a throwing
\* processMessage leaves
TrackedInTry(c, message, threw) ==
  IF threw THEN c ELSE [c EXCEPT !.latestTs = TrackLatest(@, message.ts)]

\* the statement after the try/catch of the loop body: it runs whether or
\* not processMessage threw
TrackedAfterCatch(c, message, threw) ==
  [c EXCEPT !.latestTs = TrackLatest(@, message.ts)]

\* settings.channels.filter((c) => c.enabled), as ids in configured order
EnabledChannels(en) ==
  SelectSeq(ChannelIds, LAMBDA c : c \in DOMAIN en /\ en[c])

EmptyResult(c) ==
  [channelId |-> c, messagesCreated |-> 0, threadsUpdated |-> 0,
   filesDownloaded |-> 0, errors |-> <<>>]

\* faulty variant: the result of a channel whose syncChannel threw counts
\* a message
CountedErrorResult(c, message) ==
  [EmptyResult(c) EXCEPT !.errors = <<message>>, !.messagesCreated = 1]

\* the result syncAll pushes for a channel whose syncChannel threw
ErrorResult(c, message) == [EmptyResult(c) EXCEPT !.errors = <<message>>]

\* faulty variant: the catch block pushes nothing
DropChannelError(results, c, message) == results

ResultsAfterChannelError(results, c, message) ==
  Append(results, ErrorResult(c, message))

\* faulty variant: the flag is cleared on return only, not in a finally
FlagKeptOnThrow(how) == how = "throw"

\* finally { this.isSyncing = false }, on every way out of the try block
FlagOnExit(how) == FALSE

\* ------------------------------------------------------ the message source
\* conversations.history for (channel, oldest, limit): the page, and hasMore
\* (next_cursor present).  The request never carries a cursor, so the answer
\* is always the first page; the source may or may not apply oldest.
Newer(msgs, cursor) == SelectSeq(msgs, LAMBDA m : m.ts > Num(cursor))

HistoryResponses(c, oldest) ==
  { [messages |-> page,
     hasMore  |-> remote[c].more /\ page = remote[c].messages] :
      page \in {remote[c].messages, Newer(remote[c].messages, oldest)} }

\* conversations.replies for (channel, ts): the replies of the thread, oldest
\* first, as their timestamps
ThreadRepliesOf(c, ts) ==
  LET rs == SelectSeq(SortByTs(remote[c].messages),
                      LAMBDA m : m.thread_ts = ts /\ m.ts # ts)
  IN  [k \in 1..Len(rs) |-> rs[k].ts]

\* the parent message conversations.replies returns first, if it still exists
HasParent(c, ts) ==
  \E k \in 1..Len(remote[c].messages) :
     remote[c].messages[k].ts = ts /\ ~IsThreadReply(remote[c].messages[k])

ParentOf(c, ts) ==
  LET ks == {k \in 1..Len(remote[c].messages) :
               remote[c].messages[k].ts = ts /\ ~IsThreadReply(remote[c].messages[k])}
  IN  remote[c].messages[FirstIn(ks)]

\* message.reply_count, as the source reports it
ReplyCount(c, message) == Len(ThreadRepliesOf(c, message.ts))

\* ----------------------------------------------------------- user names
UserIds == {"U1", "U2"}

\* the name users.info returns for an id
NameOf(userId) == IF userId = "U1" THEN "name of U1" ELSE "name of U2"

\* createUserResolver: the name of the map entry, the id when there is none
UserResolver(users, userId) ==
  IF userId \in DOMAIN users THEN users[userId] ELSE userId

\* a text that mentions a user: "<@U2>" before the conversion, "@<name>"
\* after it
MentionOf(u) == <<"mention", u>>

\* text.match(/<@([A-Z0-9]+)>/g)
MentionsOf(text) ==
  IF text # <<>> /\ text[1] = "mention" THEN {text[2]} ELSE {}

\* slackMrkdwnToMarkdown(text, userResolver) on the texts of messages
MarkdownText(users, text) ==
  IF text # <<>> /\ text[1] = "mention"
  THEN MentionOf(UserResolver(users, text[2]))
  ELSE text

\* the user ids of a list of messages: their users and the users their texts
\* mention
UserIdsOf(msgs) ==
  {msgs[k].user : k \in 1..Len(msgs)}
    \cup UNION {MentionsOf(msgs[k].text) : k \in 1..Len(msgs)}

\* threadUserIds: the user of the parent, the users of the replies and the
\* users the texts of the replies mention
ThreadUserIds(c, ts) ==
  {m.user : m \in {remote[c].messages[k] : k \in
                     {j \in 1..Len(remote[c].messages) :
                        remote[c].messages[j].ts = ts}}}
    \cup UserIdsOf(SelectSeq(remote[c].messages,
                             LAMBDA m : m.thread_ts = ts /\ m.ts # ts))

\* USER_CACHE_TTL, in hours
USER_CACHE_TTL == 1

\* getUserInfo answers from userCache
CacheHit(u) ==
  /\ u \in DOMAIN api.userCache
  /\ api.now - api.userCache[u] < USER_CACHE_TTL

\* faulty variant: the map is not consulted before a lookup
AllUnresolved(users, userIds) == userIds

\* if (this.userMap.has(userId)) continue
Unresolved(users, userIds) == userIds \ DOMAIN users

\* the ids for which getUserInfo sends a users.info request
Requested(users, userIds) ==
  {u \in Unresolved(users, userIds) : ~CacheHit(u)}

\* resolveUsers: the map after the loop, when the lookups of the ids in
\* failing throw and the others succeed
ResolveUsers(users, userIds, failing) ==
  [u \in DOMAIN users \cup userIds |->
     IF u \in Unresolved(users, userIds)
     THEN IF u \in failing THEN u ELSE NameOf(u)
     ELSE users[u]]

\* the users.info requests counted after resolveUsers
LookupsAfter(users, userIds) ==
  [u \in UserIds |->
     IF u \in Requested(users, userIds) THEN lookups[u] + 1 ELSE lookups[u]]

\* the client after resolveUsers: the answered requests are in userCache
ApiAfter(users, userIds, failing) ==
  [api EXCEPT
     !.userCache =
        [u \in DOMAIN @ \cup (Requested(users, userIds) \ failing) |->
           IF u \in Requested(users, userIds) THEN api.now ELSE @[u]],
     !.resolved =
        [u \in DOMAIN @ \cup Unresolved(users, userIds) |->
           IF u \in Unresolved(users, userIds)
           THEN [token |-> api.token,
                 at    |-> IF CacheHit(u) THEN api.userCache[u] ELSE api.now]
           ELSE @[u]]]

\* ------------------------------------------------------------ syncAll
\* no direct FileManager call has been made
NoOps == [calls |-> 0, incorporated |-> {}, repeated |-> 0, updated |-> 0,
          roots |-> <<>>]

\* a message that was written into a note: where, and the thread title and
\* replies it was last given
Root(path, message, title, replies) ==
  [path |-> path, ts |-> message.ts, user |-> message.user,
   text |-> message.text, title |-> title, replies |-> replies]

\* the roots after a thread retrofit was requested for (path, message)
Retrofitted(roots, path, message, replies) ==
  [k \in 1..Len(roots) |->
     IF roots[k].path = path /\ roots[k].ts = message.ts
     THEN [roots[k] EXCEPT !.title = message.text, !.replies = replies]
     ELSE roots[k]]

NoHist == [runs |-> 0, batch |-> <<>>, before |-> Undefined, clean |-> TRUE,
           prevBatch |-> <<>>, prevClean |-> TRUE, vaultBefore |-> <<>>]

\* the record of a syncChannel that ran to its end
HistAfter(h, batch, before, clean, vaultBefore) ==
  [runs |-> IF h.runs = 0 THEN 1 ELSE 2, batch |-> batch, before |-> before,
   clean |-> clean, prevBatch |-> h.batch, prevClean |-> h.clean,
   vaultBefore |-> vaultBefore]

IdleCall ==
  [pc |-> "idle", outcome |-> "none", results |-> <<>>, enabledChannels |-> <<>>,
   k |-> 0, oldest |-> Undefined, allMessages |-> <<>>, fetches |-> 0,
   latestTs |-> 0, n |-> 0, threadParents |-> <<>>, result |-> EmptyResult(""),
   startTs |-> <<>>, vaultAtStart |-> <<>>, wrote |-> <<>>]

Active(i) == call[i].pc \in {"fetch", "process", "save"}

\* faulty variant: the code after the loop can run inside it
LoopDoneEarly(c) == TRUE

\* the loop over allMessages has run for every message
LoopDone(c) == c.n > Len(c.allMessages)

Channel(i) == call[i].enabledChannels[call[i].k]

\* an invocation that has ended: what it returned or that it threw
Ended(c, how, results) ==
  [IdleCall EXCEPT !.pc = "returned", !.outcome = how, !.results = results,
                   !.enabledChannels = c.enabledChannels, !.startTs = c.startTs]

\* the start of syncChannel for the k-th enabled channel, up to the first
\* history request
StartChannel(c, k, results) ==
  [c EXCEPT !.pc = "fetch", !.k = k, !.results = results,
            !.oldest = lastSyncTimestamps[c.enabledChannels[k]],
            !.allMessages = <<>>, !.fetches = 0, !.latestTs = 0, !.n = 0,
            !.threadParents = <<>>,
            !.result = EmptyResult(c.enabledChannels[k]),
            !.vaultAtStart = vault, !.wrote = [t \in Ts |-> 0]]

\* faulty variant: the loop over the channels ends after its first iteration
SaveAfterFirst(c, results) ==
  [c EXCEPT !.pc = "save", !.results = results, !.allMessages = <<>>,
            !.fetches = 0, !.latestTs = 0, !.n = 0, !.oldest = Undefined,
            !.threadParents = <<>>, !.result = EmptyResult(""),
            !.vaultAtStart = <<>>, !.wrote = <<>>]

\* after the k-th channel: the next channel, or the settings save
NextChannel(c, results) ==
  IF c.k < Len(c.enabledChannels)
  THEN StartChannel(c, c.k + 1, results)
  ELSE [c EXCEPT !.pc = "save", !.results = results, !.allMessages = <<>>,
                 !.fetches = 0, !.latestTs = 0, !.n = 0, !.oldest = Undefined,
                 !.threadParents = <<>>, !.result = EmptyResult(""),
                 !.vaultAtStart = <<>>, !.wrote = <<>>]

\* calls take the lowest slot that is free
CanCall(i) == ~Active(i) /\ \A j \in Invs : j < i => Active(j)

\* faulty variant: no guard
GuardNever(flag) == FALSE

\* if (this.isSyncing) return []
Guard(flag) == flag

SyncAllBusy(i) ==
  /\ CanCall(i)
  /\ Guard(isSyncing)
  /\ busy < MaxBusy
  /\ busy' = busy + 1
  /\ call' = [call EXCEPT ![i] = Ended(IdleCall, "busy", <<>>)]
  /\ UNCHANGED <<tpl, plugin, enabled, groupMessagesByDate, syncThreadReplies,
                 groupedFrontmatterTemplate,
                 cleared, md, api,
                 userMap, lookups,
                 lastSyncTimestamps, savedTimestamps, isSyncing, remote, vault,
                 passes, failures, hist, ops>>

SyncAllNoChannels(i) ==
  /\ CanCall(i)
  /\ ~Guard(isSyncing)
  /\ passes < MaxPasses
  /\ EnabledChannels(enabled) = <<>>
  /\ passes' = passes + 1
  /\ isSyncing' = FlagOnExit("return")
  /\ call' = [call EXCEPT ![i] =
                Ended([IdleCall EXCEPT !.startTs = lastSyncTimestamps], "ok", <<>>)]
  /\ UNCHANGED <<tpl, plugin, enabled, groupMessagesByDate, syncThreadReplies,
                 groupedFrontmatterTemplate,
                 cleared, md, api,
                 userMap, lookups,
                 lastSyncTimestamps, savedTimestamps, remote, vault, failures,
                 busy, hist, ops>>

\* syncAll with enabled channels, up to the first history request
StartPass(i) ==
  /\ CanCall(i)
  /\ ~Guard(isSyncing)
  /\ EnabledChannels(enabled) # <<>>
  /\ isSyncing' = TRUE
  /\ call' = [call EXCEPT ![i] =
                StartChannel([IdleCall EXCEPT
                                !.enabledChannels = EnabledChannels(enabled),
                                !.startTs = lastSyncTimestamps], 1, <<>>)]
  /\ UNCHANGED <<tpl, plugin, enabled, groupMessagesByDate, syncThreadReplies,
                 groupedFrontmatterTemplate,
                 cleared, md, api,
                 userMap, lookups,
                 lastSyncTimestamps, savedTimestamps, remote, vault, failures,
                 busy, hist, ops>>

SyncAllStart(i) ==
  /\ passes < MaxPasses
  /\ passes' = passes + 1
  /\ StartPass(i)

\* a pass after the counted ones: passes go on for as long as the plugin runs
SyncAllAgain(i) ==
  /\ passes = MaxPasses
  /\ passes' = passes
  /\ StartPass(i)

\* --------------------------------------------------------- syncChannel
\* One answer to the history request of the paging loop.
FetchPage(i) ==
  /\ call[i].pc = "fetch"
  /\ call[i].fetches < MaxFetch
  /\ \E response \in HistoryResponses(Channel(i), call[i].oldest) :
       LET c           == call[i]
           allMessages == c.allMessages \o response.messages
           sorted      == SortByTs(allMessages)
       IN  IF response.hasMore
           THEN /\ call' = [call EXCEPT ![i].allMessages = allMessages,
                                        ![i].fetches = c.fetches + 1]
                /\ hist' = hist
                /\ UNCHANGED <<userMap, lookups, failures, api>>
           ELSE IF allMessages = <<>>
           THEN /\ call' = [call EXCEPT ![i] =
                              NextChannel(c, Append(c.results, c.result))]
                /\ hist' = [hist EXCEPT ![Channel(i)] =
                              HistAfter(@, <<>>, c.oldest, TRUE, c.vaultAtStart)]
                /\ UNCHANGED <<userMap, lookups, failures, api>>
           ELSE /\ \E failing \in SUBSET Requested(userMap, UserIdsOf(sorted)) :
                     /\ failures + Cardinality(failing) <= MaxFailures
                     /\ failures' = failures + Cardinality(failing)
                     /\ userMap' = ResolveUsers(userMap, UserIdsOf(sorted),
                                                failing)
                     /\ api' = ApiAfter(userMap, UserIdsOf(sorted), failing)
                /\ lookups' = LookupsAfter(userMap, UserIdsOf(sorted))
                /\ call' = [call EXCEPT ![i].pc = "process",
                                        ![i].allMessages = sorted,
                                        ![i].fetches = c.fetches + 1,
                                        ![i].n = 1,
                                        ![i].latestTs = InitialLatestTs(c.oldest),
                                        ![i].threadParents =
                                           ThreadParentTsToUpdate(sorted)]
                /\ hist' = hist
  /\ UNCHANGED <<tpl, plugin, enabled, groupMessagesByDate, syncThreadReplies,
                 groupedFrontmatterTemplate,
                 cleared, md,
                 lastSyncTimestamps, savedTimestamps, isSyncing, remote, vault,
                 passes, busy, ops>>

\* The history request throws: syncChannel throws, syncAll records the error
\* and goes on with the next channel.
FetchFails(i) ==
  /\ call[i].pc = "fetch"
  /\ failures < MaxFailures
  /\ failures' = failures + 1
  /\ call' = [call EXCEPT ![i] =
                NextChannel(call[i],
                  ResultsAfterChannelError(call[i].results, Channel(i),
                                           <<"Slack API error">>))]
  /\ hist' = [hist EXCEPT ![Channel(i)] = NoHist]
  /\ UNCHANGED <<tpl, plugin, enabled, groupMessagesByDate, syncThreadReplies,
                 groupedFrontmatterTemplate,
                 cleared, md, api,
                 userMap, lookups,
                 lastSyncTimestamps, savedTimestamps, isSyncing, remote, vault,
                 passes, busy, ops>>

\* processMessage for a top-level message, as [vault, downloaded, ret,
\* created, files, errors].  The files are downloaded and saved first, which
\* gives the vault downloaded (a failing download is recorded).  A
\* standalone file upload is written at once, without its thread, and counted.
\* Otherwise the thread replies are fetched when enabled (a failing fetch is
\* recorded and the note written without them), then the note is created or
\* the entry appended, and counted when the FileManager returned a path.
ProcessMessage(v, chan, message, threadFetchFails, downloadFails) ==
  LET userName      == UserResolver(userMap, message.user)
      upload        == IsStandaloneFileUpload(message)
      wantThread    == ~upload /\ syncThreadReplies
                         /\ ReplyCount(chan, message) > 0
      threadReplies == IF wantThread /\ ~threadFetchFails
                       THEN ThreadRepliesOf(chan, message.ts) ELSE <<>>
      saved == IF message.files > 0 /\ ~downloadFails
               THEN SaveAttachment(v, FileData(message), FileName, chan)
               ELSE [vault |-> v, ret |-> Null, probes |-> 0]
      attachmentEmbeds == IF saved.ret # Null THEN <<Embed(saved.ret)>>
                          ELSE <<>>
      written ==
        IF upload
        THEN IF groupMessagesByDate
             THEN AppendToGroupedNote(saved.vault, chan, message, userName,
                                      FileDesc, attachmentEmbeds, <<>>)
             ELSE CreateIndividualNote(saved.vault, chan, message, userName,
                                       <<>>, attachmentEmbeds, <<>>)
        ELSE IF groupMessagesByDate
             THEN AppendToGroupedNote(saved.vault, chan, message, userName,
                                      MarkdownText(userMap, message.text),
                                      attachmentEmbeds, threadReplies)
             ELSE CreateIndividualNote(saved.vault, chan, message, userName,
                                       MarkdownText(userMap, message.text),
                                       attachmentEmbeds, threadReplies)
  IN  [vault   |-> written.vault,
       downloaded |-> saved.vault,
       ret     |-> written.ret,
       created |-> upload \/ written.ret # Null,
       files   |-> IF downloadFails THEN 0 ELSE message.files,
       errors  |-> (IF message.files > 0 /\ downloadFails
                    THEN <<<<"File", message.ts>>>> ELSE <<>>)
                   \o (IF wantThread /\ threadFetchFails
                       THEN <<<<"Thread", message.ts>>>> ELSE <<>>)]

\* the loop over allMessages goes on to the next message
AfterMessage(c) == [c EXCEPT !.n = c.n + 1]

\* One iteration of the loop over allMessages.
ProcessNext(i) ==
  /\ call[i].pc = "process"
  /\ call[i].n <= Len(call[i].allMessages)
  /\ LET c       == call[i]
         message == c.allMessages[c.n]
     IN  IF ShouldSkipMessage(message) \/ IsThreadReply(message)
         THEN \* continue: the rest of the loop body is not run
              /\ call' = [call EXCEPT ![i] = AfterMessage(c)]
              /\ UNCHANGED <<vault, failures>>
         ELSE \E outcome \in {"ok", "thread fetch fails", "store fails",
                               "download fails"} :
              /\ outcome # "ok" => failures < MaxFailures
              /\ outcome = "thread fetch fails" =>
                    /\ ~IsStandaloneFileUpload(message)
                    /\ syncThreadReplies /\ ReplyCount(Channel(i), message) > 0
              /\ outcome = "download fails" => message.files > 0
              /\ failures' = IF outcome = "ok" THEN failures ELSE failures + 1
              /\ LET done == ProcessMessage(vault, Channel(i), message,
                                            outcome = "thread fetch fails",
                                            outcome = "download fails")
                     tracked == TrackedAfterCatch(c, message,
                                                  outcome = "store fails")
                 IN  IF outcome = "store fails"
                     THEN /\ vault' = done.downloaded
                          /\ call' = [call EXCEPT ![i] = AfterMessage(
                               [tracked EXCEPT
                                  !.result.filesDownloaded = @ + done.files,
                                  !.result.errors =
                                     Append(@, <<"Message", message.ts>>)])]
                     ELSE /\ vault' = done.vault
                          /\ call' = [call EXCEPT ![i] = AfterMessage(
                               [tracked EXCEPT
                                  !.result.errors = @ \o done.errors,
                                  !.result.filesDownloaded = @ + done.files,
                                  !.result.messagesCreated =
                                     IF done.created THEN @ + 1 ELSE @,
                                  !.wrote[message.ts] =
                                     IF done.ret # Null THEN @ + 1 ELSE @])]
  /\ UNCHANGED <<tpl, plugin, enabled, groupMessagesByDate, syncThreadReplies,
                 groupedFrontmatterTemplate,
                 cleared, md, api,
                 userMap, lookups,
                 lastSyncTimestamps, savedTimestamps, isSyncing, remote,
                 passes, busy, hist, ops>>

\* faulty variant: a failure ends the loop over the parents
AbortRetrofit(c, parentTs) ==
  [c EXCEPT !.threadParents = <<>>,
            !.result.errors = Append(@, <<"Thread update", parentTs>>)]

\* catch (e) { result.errors.push(`Thread update ${parentTs}: ...`) }, and the
\* loop goes on with the next parent
AfterRetrofitFailure(c, parentTs) ==
  [c EXCEPT !.threadParents = Tail(@),
            !.result.errors = Append(@, <<"Thread update", parentTs>>)]

\* updateExistingThreads: one parent of threadParentTsToUpdate.
UpdateThread(i) ==
  /\ call[i].pc = "process"
  /\ LoopDone(call[i])
  /\ syncThreadReplies
  /\ call[i].threadParents # <<>>
  /\ LET c        == call[i]
         chan     == Channel(i)
         parentTs == Head(c.threadParents)
         rest     == [c EXCEPT !.threadParents = Tail(@)]
         failed   == AfterRetrofitFailure(c, parentTs)
     IN  \E outcome \in {"ok", "thread fetch fails", "store fails"} :
         IF outcome = "thread fetch fails" \/ ~HasParent(chan, parentTs)
         THEN /\ outcome # "store fails"
              /\ outcome # "ok" => failures < MaxFailures
              /\ failures' = IF outcome = "ok" THEN failures ELSE failures + 1
              /\ call' = [call EXCEPT ![i] = failed]
              /\ UNCHANGED <<vault, userMap, lookups, api>>
         ELSE IF ThreadRepliesOf(chan, parentTs) = <<>>
         THEN /\ outcome = "ok"
              /\ call' = [call EXCEPT ![i] = rest]
              /\ UNCHANGED <<vault, userMap, lookups, failures, api>>
         ELSE \E failing \in SUBSET Requested(userMap,
                                             ThreadUserIds(chan, parentTs)) :
              LET failed1 == IF outcome = "ok" THEN 0 ELSE 1
                  users   == ResolveUsers(userMap, ThreadUserIds(chan, parentTs),
                                          failing)
                  parent  == ParentOf(chan, parentTs)
                  replies == ThreadRepliesOf(chan, parentTs)
                  updated ==
                    IF groupMessagesByDate
                    THEN UpdateGroupedNoteThread(vault, chan, parent,
                           UserResolver(users, parent.user),
                           MarkdownText(users, parent.text), replies)
                    ELSE UpdateIndividualNoteThread(vault, chan, parent,
                           UserResolver(users, parent.user),
                           MarkdownText(users, parent.text), replies)
              IN  /\ failures + failed1 + Cardinality(failing) <= MaxFailures
                  /\ failures' = failures + failed1 + Cardinality(failing)
                  /\ userMap' = users
                  /\ api' = ApiAfter(userMap, ThreadUserIds(chan, parentTs),
                                     failing)
                  /\ lookups' = LookupsAfter(userMap, ThreadUserIds(chan, parentTs))
                  /\ IF outcome = "store fails"
                     THEN /\ call' = [call EXCEPT ![i] = failed]
                          /\ vault' = vault
                     ELSE /\ vault' = updated.vault
                          /\ call' = [call EXCEPT ![i] =
                               [rest EXCEPT !.result.threadsUpdated =
                                               IF updated.ret THEN @ + 1 ELSE @]]
  /\ UNCHANGED <<tpl, plugin, enabled, groupMessagesByDate, syncThreadReplies,
                 groupedFrontmatterTemplate,
                 cleared, md,
                 lastSyncTimestamps, savedTimestamps, isSyncing, remote,
                 passes, busy, hist, ops>>

\* this.settings.lastSyncTimestamps[channel.id] = latestTs; return result
FinishChannel(i) ==
  /\ call[i].pc = "process"
  /\ LoopDone(call[i])
  /\ ~syncThreadReplies \/ call[i].threadParents = <<>>
  /\ LET c == call[i]
     IN  /\ lastSyncTimestamps' =
              [lastSyncTimestamps EXCEPT ![Channel(i)] = c.latestTs]
         /\ hist' = [hist EXCEPT ![Channel(i)] =
              HistAfter(@, c.allMessages, c.oldest, c.result.errors = <<>>,
                        c.vaultAtStart)]
         /\ call' = [call EXCEPT ![i] = NextChannel(c, Append(c.results, c.result))]
  /\ UNCHANGED <<tpl, plugin, enabled, groupMessagesByDate, syncThreadReplies,
                 groupedFrontmatterTemplate,
                 cleared, md, api,
                 userMap, lookups,
                 savedTimestamps, isSyncing, remote, vault, passes, failures,
                 busy, ops>>

\* await onSaveSettings(), the report, finally, return results
SaveSettings(i) ==
  /\ call[i].pc = "save"
  /\ savedTimestamps' = lastSyncTimestamps
  /\ isSyncing' = FlagOnExit("return")
  /\ call' = [call EXCEPT ![i] = Ended(call[i], "ok", call[i].results)]
  /\ api' = [api EXCEPT !.userCache = <<>>]
  /\ UNCHANGED <<tpl, plugin, enabled, groupMessagesByDate, syncThreadReplies,
                 groupedFrontmatterTemplate,
                 cleared, md,
                 userMap, lookups,
                 lastSyncTimestamps, remote, vault, passes, failures, busy,
                 hist, ops>>

\* onSaveSettings() throws: finally runs and syncAll throws
SaveSettingsFails(i) ==
  /\ call[i].pc = "save"
  /\ failures < MaxFailures
  /\ failures' = failures + 1
  /\ isSyncing' = FlagOnExit("throw")
  /\ call' = [call EXCEPT ![i] = Ended(call[i], "threw", <<>>)]
  /\ UNCHANGED <<tpl, plugin, enabled, groupMessagesByDate, syncThreadReplies,
                 groupedFrontmatterTemplate,
                 cleared, md, api,
                 userMap, lookups,
                 lastSyncTimestamps, savedTimestamps, remote, vault, passes,
                 busy, hist, ops>>

\* The application stops in the middle of a pass and is started again:
\* onload builds a new engine and loads the settings from data.json.
Restart ==
  /\ \E i \in Invs : Active(i)
  /\ failures < MaxFailures
  /\ failures' = failures + 1
  /\ isSyncing' = FALSE
  /\ lastSyncTimestamps' = savedTimestamps
  /\ call' = [i \in Invs |-> IdleCall]
  /\ userMap' = <<>>
  /\ api' = NewApi(api.token, api.now)
  /\ hist' = [c \in Chans |-> NoHist]
  /\ UNCHANGED <<tpl, plugin, enabled, groupMessagesByDate, syncThreadReplies,
                 groupedFrontmatterTemplate,
                 cleared, md,
                 lookups,
                 savedTimestamps, remote, vault, passes, busy, ops>>

\* Between two passes a message is deleted in the workspace, so that the
\* next conversations.history answer no longer holds it.
Without(msgs, k) == SubSeq(msgs, 1, k - 1) \o SubSeq(msgs, k + 1, Len(msgs))

Delete(c, k) ==
  /\ \A i \in Invs : ~Active(i)
  /\ passes >= 1
  /\ passes < MaxPasses
  /\ k \in 1..Len(remote[c].messages)
  /\ remote' = [remote EXCEPT ![c] = [messages |-> Without(remote[c].messages, k),
                                      more     |-> FALSE]]
  /\ UNCHANGED <<tpl, plugin, enabled, groupMessagesByDate, syncThreadReplies,
                 groupedFrontmatterTemplate,
                 cleared, md, api,
                 userMap, lookups,
                 lastSyncTimestamps, savedTimestamps, isSyncing, vault, call,
                 passes, failures, busy, hist, ops>>

\* ------------------------------------------------------- specification
\* a page is followed by further pages only when it is full
PageMax(c) == IF c = ChannelIds[1] THEN MaxBatch ELSE MaxBatch2

Histories(c) ==
  { h \in [messages : SeqsUpTo(Msgs, PageMax(c)), more : BOOLEAN] :
      h.more => Len(h.messages) = PageMax(c) }

Init ==
  /\ tpl = NoTpl
  /\ plugin = NoPlugin
  /\ enabled \in [Chans -> BOOLEAN]
  /\ groupMessagesByDate \in BOOLEAN
  /\ syncThreadReplies \in BOOLEAN
  /\ groupedFrontmatterTemplate = "default"
  /\ lastSyncTimestamps = [c \in Chans |-> Undefined]
  /\ savedTimestamps = [c \in Chans |-> Undefined]
  /\ isSyncing = FALSE
  /\ remote \in [Chans -> UNION {Histories(c) : c \in Chans}]
  /\ \A c \in Chans :
       /\ remote[c] \in Histories(c)
       /\ ~enabled[c] => remote[c] = [messages |-> <<>>, more |-> FALSE]
  /\ vault = <<>>
  /\ call = [i \in Invs |-> IdleCall]
  /\ passes = 0
  /\ failures = 0
  /\ busy = 0
  /\ hist = [c \in Chans |-> NoHist]
  /\ ops = NoOps
  /\ userMap = <<>>
  /\ lookups = [u \in UserIds |-> 0]
  /\ cleared = [count |-> 0, at |-> Undefined]
  /\ md = NoText
  /\ api = NewApi("t1", 0)

Next ==
  \/ \E i \in Invs :
       \/ SyncAllBusy(i)
       \/ SyncAllNoChannels(i)
       \/ SyncAllStart(i)
       \/ FetchPage(i)
       \/ FetchFails(i)
       \/ ProcessNext(i)
       \/ UpdateThread(i)
       \/ FinishChannel(i)
       \/ SaveSettings(i)
       \/ SaveSettingsFails(i)
  \/ Restart
  \/ \E c \in Chans : \E k \in 1..MaxBatch : Delete(c, k)

Spec == Init /\ [][Next]_vars

\* ------------------------------------------------- repeated-pass specification
\* One enabled channel, with one note per message, whose history fits one
\* page and no longer changes; passes are run again and again, and a finite
\* number of calls fail or passes are interrupted.
InitLive ==
  /\ Init
  /\ enabled = [c \in Chans |-> c = ChannelIds[1]]
  /\ \A c \in Chans : ~remote[c].more
  /\ ~groupMessagesByDate

NextLive ==
  \/ \E i \in Invs :
       \/ SyncAllBusy(i)
       \/ SyncAllStart(i)
       \/ SyncAllAgain(i)
       \/ FetchPage(i)
       \/ FetchFails(i)
       \/ ProcessNext(i)
       \/ UpdateThread(i)
       \/ FinishChannel(i)
       \/ SaveSettings(i)
       \/ SaveSettingsFails(i)
  \/ Restart

\* the timer starts a pass whenever none runs, and every awaited call returns
SpecLive == InitLive /\ [][NextLive]_vars /\ WF_vars(NextLive)

\* ------------------------------------------------ thread-sync specification
\* One enabled channel with thread sync on, whose history holds top-level
\* messages, thread roots (thread_ts = ts) and replies to several parents.
MaxHistory == 3
RetroMsgs ==
  { m \in [ts : 1..(MaxTs + 1), thread_ts : 0..MaxTs, subtype : {""},
           text : {<<"hi">>}, user : {"U1"}, files : {0}] :
      /\ m.thread_ts <= m.ts
      /\ m.ts = MaxTs + 1 => m.thread_ts # 0 }

InitRetro ==
  /\ tpl = NoTpl
  /\ plugin = NoPlugin
  /\ enabled = [c \in Chans |-> c = ChannelIds[1]]
  /\ groupMessagesByDate \in BOOLEAN
  /\ syncThreadReplies = TRUE
  /\ groupedFrontmatterTemplate = "default"
  /\ lastSyncTimestamps = [c \in Chans |-> Undefined]
  /\ savedTimestamps = [c \in Chans |-> Undefined]
  /\ isSyncing = FALSE
  /\ \E msgs \in SeqsUpTo(RetroMsgs, MaxHistory) :
       remote = [c \in Chans |->
                   [messages |-> IF c = ChannelIds[1] THEN msgs ELSE <<>>,
                    more |-> FALSE]]
  /\ vault = <<>>
  /\ call = [i \in Invs |-> IdleCall]
  /\ passes = 0
  /\ failures = 0
  /\ busy = 0
  /\ hist = [c \in Chans |-> NoHist]
  /\ ops = NoOps
  /\ userMap = <<>>
  /\ lookups = [u \in UserIds |-> 0]
  /\ cleared = [count |-> 0, at |-> Undefined]
  /\ md = NoText
  /\ api = NewApi("t1", 0)

NextRetro ==
  \E i \in Invs :
     \/ SyncAllStart(i)
     \/ FetchPage(i)
     \/ FetchFails(i)
     \/ ProcessNext(i)
     \/ UpdateThread(i)
     \/ FinishChannel(i)
     \/ SaveSettings(i)
     \/ SaveSettingsFails(i)

SpecRetro == InitRetro /\ [][NextRetro]_vars

\* ------------------------------------------------ file-upload specification
\* One enabled channel with thread sync on, whose history holds messages with
\* and without text and files: bare file uploads, messages with nothing to
\* show, thread roots and replies of each kind, and ids that occur twice.
MaxUploads == 2
UpMsgs ==
  { m \in [ts : Ts, thread_ts : 0..MaxTs, subtype : {""},
           text : {<<"hi">>, <<>>}, user : {"U1"}, files : {0, 1}] :
      m.thread_ts <= m.ts }

InitUp ==
  /\ tpl = NoTpl
  /\ plugin = NoPlugin
  /\ enabled = [c \in Chans |-> c = ChannelIds[1]]
  /\ groupMessagesByDate \in BOOLEAN
  /\ syncThreadReplies = TRUE
  /\ groupedFrontmatterTemplate = "default"
  /\ lastSyncTimestamps = [c \in Chans |-> Undefined]
  /\ savedTimestamps = [c \in Chans |-> Undefined]
  /\ isSyncing = FALSE
  /\ \E msgs \in SeqsUpTo(UpMsgs, MaxUploads) :
       remote = [c \in Chans |->
                   [messages |-> IF c = ChannelIds[1] THEN msgs ELSE <<>>,
                    more |-> FALSE]]
  /\ vault = <<>>
  /\ call = [i \in Invs |-> IdleCall]
  /\ passes = 0
  /\ failures = 0
  /\ busy = 0
  /\ hist = [c \in Chans |-> NoHist]
  /\ ops = NoOps
  /\ userMap = <<>>
  /\ lookups = [u \in UserIds |-> 0]
  /\ cleared = [count |-> 0, at |-> Undefined]
  /\ md = NoText
  /\ api = NewApi("t1", 0)

SpecUp == InitUp /\ [][NextRetro]_vars

\* ------------------------------------------------ mention specification
\* One enabled channel with thread sync on, whose messages may mention a user
\* who wrote none of them; passes are run again and again and the application
\* may be restarted.
MaxMentions == 2
MentionMsgs ==
  { m \in [ts : Ts, thread_ts : 0..MaxTs, subtype : {""},
           text : {<<"hi">>, MentionOf("U2")}, user : {"U1"}, files : {0}] :
      m.thread_ts <= m.ts }

InitMention ==
  /\ tpl = NoTpl
  /\ plugin = NoPlugin
  /\ enabled = [c \in Chans |-> c = ChannelIds[1]]
  /\ groupMessagesByDate \in BOOLEAN
  /\ syncThreadReplies = TRUE
  /\ groupedFrontmatterTemplate = "default"
  /\ lastSyncTimestamps = [c \in Chans |-> Undefined]
  /\ savedTimestamps = [c \in Chans |-> Undefined]
  /\ isSyncing = FALSE
  /\ \E msgs \in SeqsUpTo(MentionMsgs, MaxMentions) :
       remote = [c \in Chans |->
                   [messages |-> IF c = ChannelIds[1] THEN msgs ELSE <<>>,
                    more |-> FALSE]]
  /\ vault = <<>>
  /\ call = [i \in Invs |-> IdleCall]
  /\ passes = 0
  /\ failures = 0
  /\ busy = 0
  /\ hist = [c \in Chans |-> NoHist]
  /\ ops = NoOps
  /\ userMap = <<>>
  /\ lookups = [u \in UserIds |-> 0]
  /\ cleared = [count |-> 0, at |-> Undefined]
  /\ md = NoText
  /\ api = NewApi("t1", 0)

SpecMention == InitMention /\ [][NextLive]_vars

\* ------------------------------------------------ user-name specification
\* One enabled channel, one note per message, thread sync off.  Between two
\* passes messages are posted and the bot token is changed in the settings
\* tab; time goes by, counted in hours.
MaxNow == 2
Tokens == {"t1", "t2"}

\* the token field of the settings tab: plugin.setToken(value), then
\* plugin.saveSettings()
ChangeToken(token) ==
  /\ \A i \in Invs : ~Active(i)
  /\ token # api.token
  /\ api' = [api EXCEPT !.token = token, !.userCache = <<>>]
  /\ savedTimestamps' = lastSyncTimestamps
  /\ UNCHANGED <<tpl, plugin, enabled, groupMessagesByDate, syncThreadReplies,
                 groupedFrontmatterTemplate,
                 cleared, md,
                 userMap, lookups,
                 lastSyncTimestamps, isSyncing, remote, vault, call,
                 passes, failures, busy, hist, ops>>

\* an hour goes by between two passes
Tick ==
  /\ \A i \in Invs : ~Active(i)
  /\ api.now < MaxNow
  /\ api' = [api EXCEPT !.now = @ + 1]
  /\ UNCHANGED <<tpl, plugin, enabled, groupMessagesByDate, syncThreadReplies,
                 groupedFrontmatterTemplate,
                 cleared, md,
                 userMap, lookups,
                 lastSyncTimestamps, savedTimestamps, isSyncing, remote, vault,
                 call, passes, failures, busy, hist, ops>>

\* a user posts a message in channel c
Post(c, u) ==
  /\ \A i \in Invs : ~Active(i)
  /\ Len(remote[c].messages) < MaxTs
  /\ remote' = [remote EXCEPT ![c].messages =
                  Append(@, [ts |-> Len(@) + 1, thread_ts |-> 0, subtype |-> "",
                             text |-> <<"hi">>, user |-> u, files |-> 0])]
  /\ UNCHANGED <<tpl, plugin, enabled, groupMessagesByDate, syncThreadReplies,
                 groupedFrontmatterTemplate,
                 cleared, md, api,
                 userMap, lookups,
                 lastSyncTimestamps, savedTimestamps, isSyncing, vault, call,
                 passes, failures, busy, hist, ops>>

InitUsers ==
  /\ tpl = NoTpl
  /\ plugin = NoPlugin
  /\ enabled = [c \in Chans |-> c = ChannelIds[1]]
  /\ groupMessagesByDate = FALSE
  /\ syncThreadReplies = FALSE
  /\ groupedFrontmatterTemplate = "default"
  /\ lastSyncTimestamps = [c \in Chans |-> Undefined]
  /\ savedTimestamps = [c \in Chans |-> Undefined]
  /\ isSyncing = FALSE
  /\ remote = [c \in Chans |-> [messages |-> <<>>, more |-> FALSE]]
  /\ vault = <<>>
  /\ call = [i \in Invs |-> IdleCall]
  /\ passes = 0
  /\ failures = 0
  /\ busy = 0
  /\ hist = [c \in Chans |-> NoHist]
  /\ ops = NoOps
  /\ userMap = <<>>
  /\ lookups = [u \in UserIds |-> 0]
  /\ cleared = [count |-> 0, at |-> Undefined]
  /\ md = NoText
  /\ api = NewApi("t1", 0)

NextUsers ==
  \/ \E i \in Invs :
       \/ SyncAllStart(i)
       \/ SyncAllAgain(i)
       \/ FetchPage(i)
       \/ FetchFails(i)
       \/ ProcessNext(i)
       \/ FinishChannel(i)
       \/ SaveSettings(i)
       \/ SaveSettingsFails(i)
  \/ \E token \in Tokens : ChangeToken(token)
  \/ Tick
  \/ \E u \in UserIds : Post(ChannelIds[1], u)

SpecUsers == InitUsers /\ [][NextUsers]_vars

\* ------------------------------------------------ clear-history specification
\* One enabled channel with one note per message; the Clear Sync History
\* button of the settings tab may be pressed at any time, also during a pass.
MaxClears == 1

\* lastSyncTimestamps = {}; await saveSettings()
ClearSyncHistory ==
  /\ cleared.count < MaxClears
  /\ cleared' = [count |-> cleared.count + 1, at |-> passes]
  /\ lastSyncTimestamps' = [c \in Chans |-> Undefined]
  /\ savedTimestamps' = [c \in Chans |-> Undefined]
  /\ UNCHANGED <<tpl, plugin, enabled, groupMessagesByDate, syncThreadReplies,
                 groupedFrontmatterTemplate, userMap, lookups, md, api,
                 isSyncing, remote, vault, call, passes, failures, busy,
                 hist, ops>>

NextClear ==
  \/ \E i \in Invs :
       \/ SyncAllBusy(i)
       \/ SyncAllStart(i)
       \/ FetchPage(i)
       \/ FetchFails(i)
       \/ ProcessNext(i)
       \/ UpdateThread(i)
       \/ FinishChannel(i)
       \/ SaveSettings(i)
       \/ SaveSettingsFails(i)
  \/ Restart
  \/ ClearSyncHistory

SpecClear == InitLive /\ [][NextClear]_vars

\* ------------------------------------------ grouped-note specification
\* Direct calls of appendToGroupedNote and updateGroupedNoteThread on the
\* grouped notes of one channel, with texts that may quote the timestamp of
\* another message of the same day.
FmChannel == ChannelIds[1]
FmTs      == 1..(MaxTs + 1)
FmTexts   == {<<"hi">>, QuoteOf(MaxTs)}
FmMsgs    == [ts : FmTs, thread_ts : {0}, subtype : {""}, text : FmTexts,
              user : {"U1", "U2"}, files : {0}]
FmReplies == {<<>>, <<MaxTs + 1>>}

AppendCall(message, threadReplies) ==
  /\ ops.calls < MaxOps
  /\ LET done == AppendToGroupedNote(vault, FmChannel, message, message.user,
                                     message.text, <<>>, threadReplies)
         path == GrpPath(FmChannel, DayOf(message.ts))
     IN  /\ vault' = done.vault
         /\ ops' = [ops EXCEPT
               !.calls = @ + 1,
               !.incorporated = IF done.ret # Null
                                THEN @ \cup {<<done.ret, message.ts>>} ELSE @,
               !.roots = IF done.ret # Null
                         THEN Append(@, Root(done.ret, message, message.text,
                                             threadReplies))
                         ELSE @,
               !.repeated = IF <<path, message.ts>> \in ops.incorporated
                            THEN @ + 1 ELSE @]
  /\ UNCHANGED <<tpl, plugin, enabled, groupMessagesByDate, syncThreadReplies,
                 groupedFrontmatterTemplate,
                 cleared, md, api,
                 userMap, lookups,
                 lastSyncTimestamps, savedTimestamps, isSyncing, remote, call,
                 passes, failures, busy, hist>>

UpdateCall(message, threadReplies) ==
  /\ ops.calls < MaxOps
  /\ LET done == UpdateGroupedNoteThread(vault, FmChannel, message,
                                         message.user, message.text,
                                         threadReplies)
     IN  /\ vault' = done.vault
         /\ ops' = [ops EXCEPT
               !.calls = @ + 1,
               !.updated = IF done.ret THEN @ + 1 ELSE @,
               !.roots = Retrofitted(@, GrpPath(FmChannel, DayOf(message.ts)),
                                     message, threadReplies)]
  /\ UNCHANGED <<tpl, plugin, enabled, groupMessagesByDate, syncThreadReplies,
                 groupedFrontmatterTemplate,
                 cleared, md, api,
                 userMap, lookups,
                 lastSyncTimestamps, savedTimestamps, isSyncing, remote, call,
                 passes, failures, busy, hist>>

InitFM ==
  /\ tpl = NoTpl
  /\ plugin = NoPlugin
  /\ enabled = [c \in Chans |-> FALSE]
  /\ groupMessagesByDate = TRUE
  /\ syncThreadReplies = TRUE
  /\ groupedFrontmatterTemplate \in {"default", "author"}
  /\ lastSyncTimestamps = [c \in Chans |-> Undefined]
  /\ savedTimestamps = [c \in Chans |-> Undefined]
  /\ isSyncing = FALSE
  /\ remote = [c \in Chans |-> [messages |-> <<>>, more |-> FALSE]]
  /\ vault = <<>>
  /\ call = [i \in Invs |-> IdleCall]
  /\ passes = 0
  /\ failures = 0
  /\ busy = 0
  /\ hist = [c \in Chans |-> NoHist]
  /\ ops = NoOps
  /\ userMap = <<>>
  /\ lookups = [u \in UserIds |-> 0]
  /\ cleared = [count |-> 0, at |-> Undefined]
  /\ md = NoText
  /\ api = NewApi("t1", 0)

NextFM ==
  \/ \E message \in FmMsgs : \E threadReplies \in FmReplies :
        AppendCall(message, threadReplies)
  \/ \E message \in FmMsgs : \E threadReplies \in FmReplies :
        UpdateCall(message, threadReplies)

SpecFM == InitFM /\ [][NextFM]_vars

\* --------------------------------------------- thread-section specification
\* Direct calls that write notes and retrofit threads, in both modes, with
\* message texts that may hold headings of their own and retrofits with
\* different reply sets.
ThTexts     == {<<"hi">>, Headed}
ThMsgs      == [ts : Ts, thread_ts : {0}, subtype : {""}, text : ThTexts,
                user : {"U1"}, files : {0}]
ThReplies   == {<<>>, <<MaxTs + 1>>}
ThRetrofits == {<<MaxTs + 1>>, <<MaxTs + 1, MaxTs + 2>>}

CreateCall(message, threadReplies) ==
  /\ ops.calls < MaxOps
  /\ LET done == CreateIndividualNote(vault, FmChannel, message, message.user,
                                      message.text, <<>>, threadReplies)
     IN  /\ vault' = done.vault
         /\ ops' = [ops EXCEPT
               !.calls = @ + 1,
               !.roots = IF done.ret # Null
                         THEN Append(@, Root(done.ret, message, message.text,
                                             threadReplies))
                         ELSE @]
  /\ UNCHANGED <<tpl, plugin, enabled, groupMessagesByDate, syncThreadReplies,
                 groupedFrontmatterTemplate,
                 cleared, md, api,
                 userMap, lookups,
                 lastSyncTimestamps, savedTimestamps, isSyncing, remote, call,
                 passes, failures, busy, hist>>

UpdateIndividualCall(message, threadReplies) ==
  /\ ops.calls < MaxOps
  /\ LET done == UpdateIndividualNoteThread(vault, FmChannel, message,
                                            message.user, message.text,
                                            threadReplies)
     IN  /\ vault' = done.vault
         /\ ops' = [ops EXCEPT
               !.calls = @ + 1,
               !.updated = IF done.ret THEN @ + 1 ELSE @,
               !.roots = Retrofitted(@, IndPath(FmChannel, message.ts),
                                     message, threadReplies)]
  /\ UNCHANGED <<tpl, plugin, enabled, groupMessagesByDate, syncThreadReplies,
                 groupedFrontmatterTemplate,
                 cleared, md, api,
                 userMap, lookups,
                 lastSyncTimestamps, savedTimestamps, isSyncing, remote, call,
                 passes, failures, busy, hist>>

NextThread ==
  \/ \E message \in ThMsgs : \E threadReplies \in ThReplies :
        AppendCall(message, threadReplies)
  \/ \E message \in ThMsgs : \E threadReplies \in ThRetrofits :
        UpdateCall(message, threadReplies)
  \/ \E message \in ThMsgs : \E threadReplies \in ThReplies :
        CreateCall(message, threadReplies)
  \/ \E message \in ThMsgs : \E threadReplies \in ThRetrofits :
        UpdateIndividualCall(message, threadReplies)

SpecThread == InitFM /\ [][NextThread]_vars

\* ------------------------------------------------ attachment specification
\* Direct calls of saveAttachment.  A file name is a sequence of characters;
\* the characters told apart are a letter, "_", "." and the digits.
AttNames ==
  { <<"a", ".", "p">>, <<"a", "_", "1", ".", "p">>, <<"a">>,
    <<"a", "_", "1">>, <<"a", ".", "b", ".", "p">> }
AttData == {"d1", "d2"}

SaveAttachmentCall(data, fileName) ==
  /\ ops.calls < MaxOps
  /\ vault' = SaveAttachment(vault, data, fileName, FmChannel).vault
  /\ ops' = [ops EXCEPT !.calls = @ + 1]
  /\ UNCHANGED <<tpl, plugin, enabled, groupMessagesByDate, syncThreadReplies,
                 groupedFrontmatterTemplate,
                 cleared, md, api,
                 userMap, lookups,
                 lastSyncTimestamps, savedTimestamps, isSyncing, remote, call,
                 passes, failures, busy, hist>>

NextAtt == \E data \in AttData : \E fileName \in AttNames :
              SaveAttachmentCall(data, fileName)

SpecAtt == InitFM /\ [][NextAtt]_vars

\* ------------------------------------------------ edited-note specification
\* The notes are files of the user's vault: between two calls the user may
\* edit a note, here by deleting its frontmatter block.
EditNote(path) ==
  /\ path \in DOMAIN vault
  /\ ParseFrontmatter(vault[path]).ok
  /\ vault' = [vault EXCEPT ![path] = Tail(@)]
  /\ UNCHANGED <<tpl, plugin, enabled, groupMessagesByDate, syncThreadReplies,
                 groupedFrontmatterTemplate,
                 cleared, md, api,
                 userMap, lookups,
                 lastSyncTimestamps, savedTimestamps, isSyncing, remote, call,
                 passes, failures, busy, hist, ops>>

NextEdit ==
  \/ NextThread
  \/ \E path \in DOMAIN vault : EditNote(path)

SpecEdit == InitFM /\ [][NextEdit]_vars

\* ------------------------------------------------- converter specification
\* slackMrkdwnToMarkdown applied to a text once, and to its result again.
\* The texts are built from up to MaxLen pieces: a character, or "```".
MaxLen == 5
Pieces == {<<Letter>>, <<Space>>, <<Star>>, <<BT>>, Fence, <<Mention>>,
           <<EncodedGt>>, <<CB(0)>>}

InitMd ==
  /\ tpl = NoTpl
  /\ plugin = NoPlugin
  /\ enabled = [c \in Chans |-> FALSE]
  /\ groupMessagesByDate = FALSE
  /\ syncThreadReplies = FALSE
  /\ groupedFrontmatterTemplate = "default"
  /\ lastSyncTimestamps = [c \in Chans |-> Undefined]
  /\ savedTimestamps = [c \in Chans |-> Undefined]
  /\ isSyncing = FALSE
  /\ remote = [c \in Chans |-> [messages |-> <<>>, more |-> FALSE]]
  /\ vault = <<>>
  /\ call = [i \in Invs |-> IdleCall]
  /\ passes = 0
  /\ failures = 0
  /\ busy = 0
  /\ hist = [c \in Chans |-> NoHist]
  /\ ops = NoOps
  /\ userMap = <<>>
  /\ lookups = [u \in UserIds |-> 0]
  /\ cleared = [count |-> 0, at |-> Undefined]
  /\ \E pieces \in SeqsUpTo(Pieces, MaxLen) :
       md = [NoText EXCEPT !.input = Concat(pieces)]
  /\ api = NewApi("t1", 0)

Convert ==
  /\ md.applied < 2
  /\ md' = IF md.applied = 0
           THEN [md EXCEPT !.once = SlackMrkdwnToMarkdown(md.input),
                           !.applied = 1]
           ELSE [md EXCEPT !.twice = SlackMrkdwnToMarkdown(md.once),
                           !.applied = 2]
  /\ UNCHANGED <<tpl, plugin, enabled, groupMessagesByDate, syncThreadReplies,
                 groupedFrontmatterTemplate, userMap, lookups, cleared, api,
                 lastSyncTimestamps, savedTimestamps, isSyncing, remote,
                 vault, call, passes, failures, busy, hist, ops>>

NextMd == Convert

SpecMd == InitMd /\ [][NextMd]_vars

\* ------------------------------------------- channel-settings specification
\* Passes over the enabled channels, interleaved with the buttons of the
\* settings tab: Remove channel, Add (for a channel that is not configured)
\* and Clear Sync History.  Every await of a pass is a point where a button
\* handler can run.  (A channel added again takes the place ChannelIds gives
\* it.)

\* the trash button of a configured channel: the channel leaves
\* settings.channels, its cursor is deleted, saveSettings
RemoveChannel(c) ==
  /\ c \in DOMAIN enabled
  /\ enabled' = [d \in DOMAIN enabled \ {c} |-> enabled[d]]
  /\ lastSyncTimestamps' = [lastSyncTimestamps EXCEPT ![c] = Undefined]
  /\ savedTimestamps' = lastSyncTimestamps'
  /\ api' = [api EXCEPT !.userCache = <<>>]
  /\ UNCHANGED <<tpl, plugin, groupMessagesByDate, syncThreadReplies,
                 groupedFrontmatterTemplate, userMap, lookups, md, cleared,
                 isSyncing, remote, vault, call, passes, failures, busy,
                 hist, ops>>

\* the Add button of an available channel that is not configured: a new
\* ChannelConfig with enabled: true, saveSettings
AddChannel(c) ==
  /\ c \notin DOMAIN enabled
  /\ enabled' = [d \in DOMAIN enabled \union {c} |->
                   IF d = c THEN TRUE ELSE enabled[d]]
  /\ savedTimestamps' = lastSyncTimestamps
  /\ api' = [api EXCEPT !.userCache = <<>>]
  /\ UNCHANGED <<tpl, plugin, groupMessagesByDate, syncThreadReplies,
                 groupedFrontmatterTemplate, userMap, lookups, md, cleared,
                 lastSyncTimestamps, isSyncing, remote, vault, call, passes,
                 failures, busy, hist, ops>>

NextChan ==
  \/ \E i \in Invs :
       \/ SyncAllBusy(i)
       \/ SyncAllNoChannels(i)
       \/ SyncAllStart(i)
       \/ FetchPage(i)
       \/ ProcessNext(i)
       \/ UpdateThread(i)
       \/ FinishChannel(i)
       \/ SaveSettings(i)
  \/ ClearSyncHistory
  \/ \E c \in Chans : RemoveChannel(c)
  \/ \E c \in Chans : AddChannel(c)

SpecChan == InitLive /\ [][NextChan]_vars

\* ------------------------------------------------- auto-sync specification
\* The life of the plugin object: onload, the controls of the settings tab
\* that change the auto-sync settings or the token and call saveSettings,
\* saveSettings called at the end of a pass, and onunload.  saveSettings
\* awaits saveData before it reaches setupAutoSync, so other handlers can run
\* in between.
MaxTimers == 3
MaxPending == 2
IntervalValues == {0, 1, 2}     \* settings.syncInterval as data.json holds it
SliderValues == {1, 2}          \* the slider: setLimits(1, 360, 1)
TokenValues == {"", "t1"}

InitTimer ==
  /\ tpl = NoTpl
  /\ plugin = NoPlugin
  /\ enabled = [c \in Chans |-> FALSE]
  /\ groupMessagesByDate = FALSE
  /\ syncThreadReplies = FALSE
  /\ groupedFrontmatterTemplate = "default"
  /\ lastSyncTimestamps = [c \in Chans |-> Undefined]
  /\ savedTimestamps = [c \in Chans |-> Undefined]
  /\ isSyncing = FALSE
  /\ remote = [c \in Chans |-> [messages |-> <<>>, more |-> FALSE]]
  /\ vault = <<>>
  /\ call = [i \in Invs |-> IdleCall]
  /\ passes = 0
  /\ failures = 0
  /\ busy = 0
  /\ hist = [c \in Chans |-> NoHist]
  /\ ops = NoOps
  /\ userMap = <<>>
  /\ lookups = [u \in UserIds |-> 0]
  /\ cleared = [count |-> 0, at |-> Undefined]
  /\ md = NoText
  /\ api = NewApi("t1", 0)

\* a step of the plugin object only
PluginStep ==
  UNCHANGED <<tpl, enabled, groupMessagesByDate, syncThreadReplies,
              groupedFrontmatterTemplate, userMap, lookups, cleared, api,
              lastSyncTimestamps, savedTimestamps, isSyncing, remote,
              vault, call, passes, failures, busy, hist, ops, md>>

\* onload: loadSettings reads data.json, the token comes from the secret
\* storage, then setupAutoSync
OnLoad(autoSync, syncInterval, token) ==
  /\ plugin.state # "loaded"
  /\ plugin.created < MaxTimers
  /\ plugin' = SetupAutoSync([plugin EXCEPT !.state = "loaded",
                                            !.autoSync = autoSync,
                                            !.syncInterval = syncInterval,
                                            !.token = token])
  /\ PluginStep

\* the Auto Sync toggle: the setting is changed, saveSettings is called
ToggleAutoSync(value) ==
  /\ plugin.state = "loaded"
  /\ plugin.pending < MaxPending
  /\ plugin' = [plugin EXCEPT !.autoSync = value, !.pending = @ + 1]
  /\ PluginStep

\* the Sync Interval slider, shown while auto sync is on
SlideSyncInterval(value) ==
  /\ plugin.state = "loaded"
  /\ plugin.autoSync
  /\ plugin.pending < MaxPending
  /\ plugin' = [plugin EXCEPT !.syncInterval = value, !.pending = @ + 1]
  /\ PluginStep

\* the Slack Bot Token field: setToken, then saveSettings is called
TokenField(value) ==
  /\ plugin.state = "loaded"
  /\ plugin.pending < MaxPending
  /\ plugin' = [plugin EXCEPT !.token = value, !.pending = @ + 1]
  /\ PluginStep

\* saveSettings called by a pass that ends (the passes of a plugin go on
\* after onunload)
PassSavesSettings ==
  /\ plugin.state # "new"
  /\ plugin.pending < MaxPending
  /\ plugin' = [plugin EXCEPT !.pending = @ + 1]
  /\ PluginStep

\* saveSettings after saveData: setupAutoSync, and the call returns
SaveSettingsReturns ==
  /\ plugin.pending > 0
  /\ plugin.created < MaxTimers
  /\ plugin' = SetupAutoSync([plugin EXCEPT !.pending = @ - 1])
  /\ PluginStep

\* onunload
OnUnload ==
  /\ plugin.state = "loaded"
  /\ plugin' = ClearAutoSync([plugin EXCEPT !.state = "unloaded"])
  /\ PluginStep

NextTimer ==
  \/ \E autoSync \in BOOLEAN : \E syncInterval \in IntervalValues :
       \E token \in TokenValues : OnLoad(autoSync, syncInterval, token)
  \/ \E value \in BOOLEAN : ToggleAutoSync(value)
  \/ \E value \in SliderValues : SlideSyncInterval(value)
  \/ \E value \in TokenValues : TokenField(value)
  \/ PassSavesSettings
  \/ SaveSettingsReturns
  \/ OnUnload

SpecTimer == InitTimer /\ [][NextTimer]_vars

\* ------------------------------------------------- template specification
\* applyTemplate applied to a message template and the variables of a
\* message.  Templates and values are built of at most MaxPieces pieces.
MaxPieces == 2

TplPieces ==
  { <<"a">>, <<"$">>, Placeholder(KeyDate), Placeholder(KeyUserName),
    Placeholder(KeyText), Placeholder(<<"z">>) }

ValPieces ==
  { <<"a">>, <<"$">>, <<"&">>, <<"'">>, Placeholder(KeyUserName),
    Placeholder(KeyText) }

RECURSIVE Built(_, _)
Built(pieces, n) ==
  IF n = 0 THEN {<<>>}
  ELSE Built(pieces, n - 1)
         \union {s \o piece : s \in Built(pieces, n - 1), piece \in pieces}

InitTpl ==
  /\ \E template \in Built(TplPieces, MaxPieces) :
       \E userName \in Built(ValPieces, MaxPieces) :
         \E text \in Built(ValPieces, MaxPieces) :
            tpl = [NoTpl EXCEPT !.template = template,
                                !.userName = userName, !.text = text]
  /\ plugin = NoPlugin
  /\ enabled = [c \in Chans |-> FALSE]
  /\ groupMessagesByDate = TRUE
  /\ syncThreadReplies = FALSE
  /\ groupedFrontmatterTemplate = "default"
  /\ lastSyncTimestamps = [c \in Chans |-> Undefined]
  /\ savedTimestamps = [c \in Chans |-> Undefined]
  /\ isSyncing = FALSE
  /\ remote = [c \in Chans |-> [messages |-> <<>>, more |-> FALSE]]
  /\ vault = <<>>
  /\ call = [i \in Invs |-> IdleCall]
  /\ passes = 0
  /\ failures = 0
  /\ busy = 0
  /\ hist = [c \in Chans |-> NoHist]
  /\ ops = NoOps
  /\ userMap = <<>>
  /\ lookups = [u \in UserIds |-> 0]
  /\ cleared = [count |-> 0, at |-> Undefined]
  /\ md = NoText
  /\ api = NewApi("t1", 0)

\* messageEntry = applyTemplate(groupedMessageTemplate, messageVars)
ApplyTemplateCall ==
  /\ tpl.applied = 0
  /\ tpl' = [tpl EXCEPT
               !.result = ApplyTemplate(tpl.template,
                                        MessageVars(tpl.userName, tpl.text)),
               !.applied = 1]
  /\ UNCHANGED <<plugin, enabled, groupMessagesByDate, syncThreadReplies,
                 groupedFrontmatterTemplate, userMap, lookups, cleared, api,
                 lastSyncTimestamps, savedTimestamps, isSyncing, remote,
                 vault, call, passes, failures, busy, hist, ops, md>>

NextTpl == ApplyTemplateCall

SpecTpl == InitTpl /\ [][NextTpl]_vars

\* =============================================================== claims
\* a message the loop hands to processMessage
Rendered(m) == ~ShouldSkipMessage(m) /\ ~IsThreadReply(m)

\* the note of message ts of channel c is in the vault
HasNote(c, ts) ==
  IF groupMessagesByDate
  THEN /\ GrpPath(c, DayOf(ts)) \in DOMAIN vault
       /\ IndexOfMarker(vault[GrpPath(c, DayOf(ts))], ts) # 0
  ELSE IndPath(c, ts) \in DOMAIN vault

HasError(result, e) == \E k \in 1..Len(result.errors) : result.errors[k] = e

RECURSIVE MaxTsOf(_)
MaxTsOf(msgs) ==
  IF msgs = <<>> THEN 0 ELSE Max(Head(msgs).ts, MaxTsOf(Tail(msgs)))

\* the notes of one channel
NotesOf(v, c) == [p \in {q \in DOMAIN v : q[2] = c} |-> v[p]]

\* syncAll is invoked in this step
Invoked == passes' + busy' > passes + busy

\* C1: a syncAll invoked while the in-progress flag is set returns an empty
\* result list at once: it makes no history request, writes no note, changes
\* no cursor, saves no settings, and leaves the flag and the running pass alone.
C1_SingleInFlight ==
  [][(isSyncing /\ Invoked) =>
       /\ busy' = busy + 1
       /\ passes' = passes
       /\ \E i \in Invs :
            /\ call'[i].pc = "returned"
            /\ call'[i].outcome = "busy"
            /\ call'[i].results = <<>>
            /\ call'[i].fetches = 0
            /\ \A j \in Invs \ {i} : call'[j] = call[j]
       /\ UNCHANGED <<vault, lastSyncTimestamps, savedTimestamps, isSyncing,
                      remote>>]_vars

\* a call was rejected while a pass was inside a batch
C1_Rejected ==
  \E i, j \in Invs :
     /\ call[i].pc = "process"
     /\ call[j].pc = "returned"
     /\ call[j].outcome = "busy"

\* C2: from the start of a pass on, every channel's cursor is numerically at
\* least what it was when the pass started, whatever the source returns.
C2_CursorMonotonic ==
  \A i \in Invs :
     (call[i].pc # "idle" /\ call[i].outcome # "busy") =>
        \A c \in Chans :
           Num(lastSyncTimestamps[c]) >= Num(call[i].startTs[c])

\* a pass has ended whose batch held a rendered message and nothing but
\* messages older than the cursor the pass started with
C2_OlderBatch ==
  \E i \in Invs : \E c \in Chans :
     /\ call[i].pc = "returned"
     /\ call[i].outcome = "ok"
     /\ hist[c].runs = 2
     /\ \E k \in 1..Len(hist[c].batch) : Rendered(hist[c].batch[k])
     /\ \A k \in 1..Len(hist[c].batch) :
           hist[c].batch[k].ts < Num(call[i].startTs[c])

\* C3: after syncChannel has gone through a non-empty batch, the channel's
\* cursor is the largest timestamp of all messages of the batch (skipped
\* messages and thread replies included) and the previous cursor.
C3_WatermarkIsBatchMax ==
  \A c \in Chans :
     (hist[c].runs > 0 /\ hist[c].batch # <<>>) =>
        lastSyncTimestamps[c] = Max(MaxTsOf(hist[c].batch), Num(hist[c].before))

\* a batch whose newest message was skipped or was a reply has been processed
C3_NewestNotRendered ==
  \E c \in Chans :
     /\ hist[c].runs > 0
     /\ Len(hist[c].batch) = MaxBatch
     /\ Rendered(hist[c].batch[1])
     /\ ~Rendered(hist[c].batch[MaxBatch])
     /\ hist[c].batch[1].ts < hist[c].batch[MaxBatch].ts

\* syncChannel has run twice in a row for c, on the same batch, and is not
\* running for c now
SecondRunSameBatch(c) ==
  /\ hist[c].runs = 2
  /\ hist[c].batch = hist[c].prevBatch
  /\ \A i \in Invs : call[i].pc \in {"fetch", "process"} => Channel(i) # c

SecondRunChangedNothing(c) ==
  /\ NotesOf(vault, c) = NotesOf(hist[c].vaultBefore, c)
  /\ lastSyncTimestamps[c] = hist[c].before

Pages(c) == IF remote[c].more THEN 2 ELSE 1

\* C5: the paging loop requests each page of the history once, and then
\* syncChannel goes on: it never makes more requests than there are pages.
C5_EachPageRequestedOnce ==
  \A i \in Invs :
     call[i].pc \in {"fetch", "process"} => call[i].fetches <= Pages(Channel(i))

\* the loop has received the first page MaxFetch times and is still paging
C5_SamePageAgain ==
  \E i \in Invs :
     /\ call[i].pc = "fetch"
     /\ call[i].fetches = MaxFetch
     /\ Len(call[i].allMessages) = MaxFetch * Len(remote[Channel(i)].messages)

\* C6: while syncChannel is fetching or processing a channel's batch the
\* channel's cursor is the value the channel started with, and data.json holds
\* nothing newer; the cursor is assigned only after the loop has gone through
\* every message, as syncChannel leaves the channel; a restart brings back
\* what data.json holds.
C6_CursorAfterBatch ==
  /\ [](\A i \in Invs :
          call[i].pc \in {"fetch", "process"} =>
             /\ lastSyncTimestamps[Channel(i)] = call[i].oldest
             /\ Num(savedTimestamps[Channel(i)]) <= Num(call[i].oldest))
  /\ [][\A c \in Chans :
          lastSyncTimestamps'[c] # lastSyncTimestamps[c] =>
             \/ /\ lastSyncTimestamps' = savedTimestamps
                /\ \A j \in Invs : call'[j].pc = "idle"
             \/ \E i \in Invs :
                  /\ call[i].pc = "process"
                  /\ Channel(i) = c
                  /\ call[i].n > Len(call[i].allMessages)
                  /\ call'[i].pc # "process" \/ call'[i].k # call[i].k]_vars

\* the application was stopped between the two messages of a batch
C6_InterruptedInBatch ==
  /\ \A i \in Invs : call[i].pc = "idle"
  /\ failures = 1
  /\ passes = 1
  /\ ~groupMessagesByDate
  /\ \E c \in Chans :
       /\ lastSyncTimestamps[c] = Undefined
       /\ Len(remote[c].messages) = MaxBatch
       /\ \A k \in 1..MaxBatch : Rendered(remote[c].messages[k])
       /\ \E t, u \in Ts : /\ IndPath(c, t) \in DOMAIN vault
                           /\ IndPath(c, u) \notin DOMAIN vault
                           /\ \E k \in 1..MaxBatch : remote[c].messages[k].ts = u

\* C7: a pass that returns its results returns one result per enabled
\* channel, in configured order; a channel whose syncChannel threw has its
\* error in its result; in every other channel each rendered message of the
\* batch has its note or its error in the channel's result.
C7_ErrorIsolation ==
  \A i \in Invs :
     (call[i].pc = "returned" /\ call[i].outcome = "ok") =>
        LET results == call[i].results
        IN  /\ [k \in 1..Len(results) |-> results[k].channelId]
                 = SelectSeq(ChannelIds, LAMBDA c : enabled[c])
            /\ \A k \in 1..Len(results) :
                 LET c == results[k].channelId
                 IN  \/ results[k].errors = << <<"Slack API error">> >>
                     \/ \A j \in 1..Len(hist[c].batch) :
                          Rendered(hist[c].batch[j]) =>
                             \/ HasNote(c, hist[c].batch[j].ts)
                             \/ HasError(results[k],
                                         <<"Message", hist[c].batch[j].ts>>)

\* a message failed, the next message of the batch has its note, and the
\* next channel has its result
C7_MessageFailedOthersDone ==
  \E i \in Invs :
     /\ call[i].pc = "returned"
     /\ call[i].outcome = "ok"
     /\ Len(call[i].results) = Len(ChannelIds)
     /\ \E t, u \in Ts :
          /\ t < u
          /\ HasError(call[i].results[1], <<"Message", t>>)
          /\ HasNote(ChannelIds[1], u)

\* C8: when no syncAll invocation is running, however the last one ended,
\* the in-progress flag is false.
C8_FlagReleased == (\A i \in Invs : ~Active(i)) => ~isSyncing

\* a pass ended with the exception of the settings-save callback
C8_SaveThrew ==
  \E i \in Invs :
     /\ call[i].pc = "returned"
     /\ call[i].outcome = "threw"
     /\ ~isSyncing

\* C9: while a channel's batch is processed, no message id has had more than
\* one note-writing outcome (note created or entry appended).
C9_OneWritePerMessage ==
  \A i \in Invs :
     call[i].pc = "process" => \A t \in Ts : call[i].wrote[t] <= 1

\* a batch with the same rendered message id twice has been gone through
C9_DuplicateInBatch ==
  \E i \in Invs :
     /\ call[i].pc = "process"
     /\ call[i].n > Len(call[i].allMessages)
     /\ \E j, k \in 1..Len(call[i].allMessages) :
          /\ j < k
          /\ Rendered(call[i].allMessages[j])
          /\ call[i].allMessages[j].ts = call[i].allMessages[k].ts
          /\ Rendered(call[i].allMessages[k])
          /\ call[i].wrote[call[i].allMessages[j].ts] = 1

MarkerCount(content, ts) ==
  Cardinality({k \in 1..Len(content) : content[k] = Marker(ts)})

EntryCount(content) ==
  Cardinality({k \in 1..Len(content) : content[k][1] = "E"})

\* C10: after any sequence of appendToGroupedNote and updateGroupedNoteThread
\* calls, every grouped note holds exactly one marker for each message id
\* whose append returned the note's path, no marker for any other id, and as
\* many entries as incorporated ids.
C10_MarkersAreIncorporated ==
  \A day \in {DayOf(t) : t \in FmTs} :
     LET p       == GrpPath(FmChannel, day)
         content == IF p \in DOMAIN vault THEN vault[p] ELSE <<>>
         inc     == {t \in FmTs : <<p, t>> \in ops.incorporated}
     IN  /\ \A t \in FmTs : MarkerCount(content, t) = IF t \in inc THEN 1 ELSE 0
         /\ EntryCount(content) = Cardinality(inc)

\* an incorporated id was appended again and a thread was written into a note
C10_AppendedAgain ==
  /\ ops.repeated >= 1
  /\ ops.updated >= 1

\* the authors of the entries of a note, each once, in order of appearance
RECURSIVE EntryAuthors(_)
EntryAuthors(content) ==
  IF content = <<>> THEN <<>>
  ELSE LET rest == EntryAuthors(SubSeq(content, 1, Len(content) - 1))
           tok  == content[Len(content)]
       IN  IF tok[1] = "E" THEN AddOnce(rest, tok[2]) ELSE rest

\* C11: a grouped note with entries of two or more authors has a frontmatter
\* that lists these authors in the list form (authors:), in the order in
\* which they first wrote into the note, whichever frontmatter template is set.
C11_AuthorsListed ==
  \A p \in DOMAIN vault :
     (p[1] = "grp" /\ Len(EntryAuthors(vault[p])) >= 2) =>
        vault[p][1] = FM(EntryAuthors(vault[p]))

\* a note made with the default template has entries of two authors
C11_TwoAuthorsDefaultTemplate ==
  /\ groupedFrontmatterTemplate = "default"
  /\ \E p \in DOMAIN vault : Len(EntryAuthors(vault[p])) = 2

WithoutNL(content) == SelectSeq(content, LAMBDA tok : tok # NL)

\* an individual note as it was created, with one thread section that holds
\* the replies the root was last given
ExpectedIndividual(r) ==
  <<FMI(r.ts, r.user), Text(r.text)>> \o Rest(r.text)
    \o (IF r.replies # <<>>
        THEN IndividualThreadSection(r.title, r.replies) ELSE <<>>)

\* a grouped entry as it was appended, with one thread sub-section that holds
\* the replies the root was last given (line breaks left out)
ExpectedEntry(r) ==
  <<Marker(r.ts), Entry(r.user, r.text)>> \o WithoutNL(Rest(r.text))
    \o (IF r.replies # <<>>
        THEN WithoutNL(GroupedThreadPart(r.title, r.replies)) ELSE <<>>)

RootsOf(path) == SelectSeq(ops.roots, LAMBDA r : r.path = path)

\* C12: however often threads are retrofitted, an individual note is its
\* frontmatter and body followed by exactly one thread section with the
\* replies of the latest retrofit, and a grouped note is, after its
\* frontmatter, its entries in order, each with its marker and body and
\* exactly one thread sub-section with the replies of its latest retrofit.
C12_OneThreadSection ==
  \A p \in DOMAIN vault :
     IF p[1] = "ind"
     THEN /\ Len(RootsOf(p)) = 1
          /\ vault[p] = ExpectedIndividual(RootsOf(p)[1])
     ELSE WithoutNL(Tail(vault[p]))
            = Concat([k \in 1..Len(RootsOf(p)) |-> ExpectedEntry(RootsOf(p)[k])])

\* a root was retrofitted with the longer reply set after it had a thread
C12_RetrofittedAgain ==
  /\ ops.updated >= 2
  /\ \E k \in 1..Len(ops.roots) : Len(ops.roots[k].replies) = 2

\* the note of message ts of channel c holds reply r of its thread
HasReply(c, ts, r) ==
  LET path == IF groupMessagesByDate THEN GrpPath(c, DayOf(ts)) ELSE IndPath(c, ts)
      tok  == IF groupMessagesByDate THEN Quote(r) ELSE Para(r)
  IN  /\ path \in DOMAIN vault
      /\ \E k \in 1..Len(vault[path]) : vault[path][k] = tok

\* every non-skipped top-level message of every enabled channel has its note
\* and, with thread sync on, the note holds the replies of its thread
Mirrored ==
  \A c \in Chans : enabled[c] =>
    \A k \in 1..Len(remote[c].messages) :
       LET m == remote[c].messages[k]
       IN  Rendered(m) =>
             /\ HasNote(c, m.ts)
             /\ syncThreadReplies =>
                  \A j \in 1..Len(ThreadRepliesOf(c, m.ts)) :
                     HasReply(c, m.ts, ThreadRepliesOf(c, m.ts)[j])

\* C13: when the history no longer changes, passes keep being run and only
\* finitely many calls fail, eventually every non-skipped top-level message
\* has its note and every thread's replies are in the note of its root.
C13_EventuallyMirrored == <>Mirrored

\* a write failed for a message, the pass ended and a later pass has run
C13_FailedThenAnotherPass ==
  /\ failures = MaxFailures
  /\ ~Mirrored
  /\ \E i \in Invs : call[i].pc = "returned" /\ call[i].outcome = "ok"
  /\ passes = MaxPasses

\* call i takes a step of the retrofit loop
RetrofitStep(i) ==
  /\ call[i].pc = "process"
  /\ call[i].n > Len(call[i].allMessages)
  /\ call[i].threadParents # <<>>
  /\ call'[i].pc = "process"
  /\ call'[i] # call[i]

\* call i ends syncChannel for its channel
ChannelEnds(i) ==
  /\ call[i].pc = "process"
  /\ call'[i].pc \in {"fetch", "save"}

\* C14: a retrofit step that fails adds exactly one error, for its parent,
\* leaves the notes and the tracked timestamp alone and goes on with the
\* remaining parents; no retrofit step changes the tracked timestamp, and the
\* channel ends by setting the cursor to it, at or above every top-level
\* message of the batch.
C14_RetrofitFailureKeepsCursor ==
  [][\A i \in Invs :
       /\ RetrofitStep(i) =>
            /\ call'[i].latestTs = call[i].latestTs
            /\ call'[i].threadParents = Tail(call[i].threadParents)
            /\ Len(call'[i].result.errors) > Len(call[i].result.errors) =>
                 /\ call'[i].result.errors =
                      Append(call[i].result.errors,
                             <<"Thread update", Head(call[i].threadParents)>>)
                 /\ vault' = vault
       /\ ChannelEnds(i) =>
            /\ lastSyncTimestamps'[Channel(i)] = call[i].latestTs
            /\ \A k \in 1..Len(call[i].allMessages) :
                 Rendered(call[i].allMessages[k]) =>
                   call[i].allMessages[k].ts <= lastSyncTimestamps'[Channel(i)]
  ]_vars

\* the retrofit of one parent failed, that of a later parent rewrote its
\* note, and the channel ended with the cursor set
C14_FailedThenRetrofitted ==
  \E i \in Invs :
     /\ call[i].pc = "save"
     /\ Len(call[i].results) = 1
     /\ \E p \in Ts : call[i].results[1].errors = <<<<"Thread update", p>>>>
     /\ call[i].results[1].threadsUpdated = 1
     /\ lastSyncTimestamps[ChannelIds[1]] # Undefined

\* the note of message ts of channel c is in the vault v
NoteIn(v, c, ts) ==
  IF groupMessagesByDate
  THEN /\ GrpPath(c, DayOf(ts)) \in DOMAIN v
       /\ IndexOfMarker(v[GrpPath(c, DayOf(ts))], ts) # 0
  ELSE IndPath(c, ts) \in DOMAIN v

\* call i takes one iteration of the loop over allMessages
LoopStep(i) ==
  /\ call[i].pc = "process"
  /\ call[i].n <= Len(call[i].allMessages)
  /\ call'[i].pc = "process"
  /\ call'[i].n = call[i].n + 1

\* C15: the iteration for a message whose thread_ts is non-empty and differs
\* from its ts writes nothing: no note, no entry, no count, no error; the
\* iteration for a message whose thread_ts equals its ts ends with its note
\* in the vault or with the failure of its processing recorded.
C15_RepliesNotRendered ==
  [][\A i \in Invs : LoopStep(i) =>
       LET m == call[i].allMessages[call[i].n]
       IN  /\ (m.thread_ts # 0 /\ m.thread_ts # m.ts) =>
                /\ vault' = vault
                /\ call'[i].result = call[i].result
                /\ call'[i].wrote = call[i].wrote
           /\ (m.thread_ts = m.ts /\ ~ShouldSkipMessage(m)) =>
                \/ NoteIn(vault', Channel(i), m.ts)
                \/ call'[i].result.errors =
                     Append(call[i].result.errors, <<"Message", m.ts>>)
  ]_vars

\* the loop has written the note of a thread root (thread_ts = ts) and has
\* then passed over a reply
C15_RootWrittenReplyPassed ==
  \E i \in Invs :
     /\ call[i].pc = "process"
     /\ call[i].n = 3
     /\ call[i].allMessages[1].thread_ts = call[i].allMessages[1].ts
     /\ call[i].allMessages[2].thread_ts # 0
     /\ call[i].allMessages[2].thread_ts # call[i].allMessages[2].ts
     /\ call[i].result.messagesCreated = 1
     /\ HasNote(Channel(i), call[i].allMessages[1].ts)

\* C16: with one note per message, an iteration that calls
\* createIndividualNote (no call of it fails) for a message whose file path
\* exists leaves every file as it was, creates none, counts no created
\* message and records no error.
C16_ExistingNoteKept ==
  [][\A i \in Invs :
       ( /\ LoopStep(i)
         /\ ~groupMessagesByDate
         /\ Rendered(call[i].allMessages[call[i].n])
         /\ IndPath(Channel(i), call[i].allMessages[call[i].n].ts) \in DOMAIN vault
         /\ failures' = failures )
       => /\ vault' = vault
          /\ call'[i].result = call[i].result
          /\ call'[i].wrote = call[i].wrote
  ]_vars

\* a later pass was handed a message whose note an earlier pass had created,
\* and went on without creating anything or recording an error
C16_SeenAgain ==
  \E i \in Invs :
     /\ ~groupMessagesByDate
     /\ call[i].pc = "process"
     /\ call[i].n = 2
     /\ Rendered(call[i].allMessages[1])
     /\ IndPath(Channel(i), call[i].allMessages[1].ts) \in DOMAIN call[i].vaultAtStart
     /\ call[i].result.messagesCreated = 0
     /\ call[i].result.errors = <<>>
     /\ vault = call[i].vaultAtStart

\* the lookup of user id u has just failed
LookupFailed(u) ==
  /\ u \notin DOMAIN userMap
  /\ u \in DOMAIN userMap'
  /\ userMap'[u] = u

\* the note of message m of channel c in vault v names its author as name
NamedIn(v, c, m, name) ==
  IF groupMessagesByDate
  THEN \E k \in 1..(Len(v[GrpPath(c, DayOf(m.ts))]) - 2) :
          /\ v[GrpPath(c, DayOf(m.ts))][k] = Marker(m.ts)
          /\ v[GrpPath(c, DayOf(m.ts))][k + 2] = Entry(name, m.text)
  ELSE v[IndPath(c, m.ts)][1] = FMI(m.ts, name)

\* C17: the step in which the lookup of a user id fails adds no error to any
\* result and goes on to the loop over the whole batch; a note written while
\* the id stands for itself in the user map names its author by the id; and
\* as long as the engine lives no step issues another lookup for that id or
\* changes its entry.
C17_LookupFailureDegrades ==
  [][\A u \in UserIds :
       /\ LookupFailed(u) =>
            \A i \in Invs :
               /\ call'[i].result.errors = call[i].result.errors
               /\ call[i].pc = "fetch" =>
                    /\ call'[i].pc = "process"
                    /\ call'[i].n = 1
                    /\ call'[i].allMessages # <<>>
       /\ (u \in DOMAIN userMap /\ userMap[u] = u) =>
            /\ lookups'[u] = lookups[u]
            /\ u \in DOMAIN userMap' => userMap'[u] = u
            /\ \A i \in Invs : LoopStep(i) =>
                 LET m == call[i].allMessages[call[i].n]
                 IN  ( /\ m.user = u
                       /\ ~NoteIn(vault, Channel(i), m.ts)
                       /\ NoteIn(vault', Channel(i), m.ts) )
                     => NamedIn(vault', Channel(i), m, u)
  ]_vars

\* the lookup of an id failed once, a note names its author by the id, and a
\* later pass has a batch with a message of that user in hand
C17_FailedOnceThenLaterPass ==
  \E u \in UserIds : \E i \in Invs :
     /\ u \in DOMAIN userMap
     /\ userMap[u] = u
     /\ lookups[u] = 1
     /\ passes = MaxPasses
     /\ call[i].pc = "process"
     /\ u \in UserIdsOf(call[i].allMessages)
     /\ \E m \in Msgs : /\ m.user = u
                        /\ NoteIn(call[i].vaultAtStart, Channel(i), m.ts)
                        /\ NamedIn(call[i].vaultAtStart, Channel(i), m, u)

\* C18: in the first pass that starts after Clear Sync History has run, the
\* history of every channel is requested with no lower bound.
C18_NextPassUnbounded ==
  \A i \in Invs :
     ( /\ cleared.count >= 1
       /\ passes = cleared.at + 1
       /\ call[i].pc \in {"fetch", "process"} )
     => call[i].oldest = Undefined

\* the history was cleared while a pass was working on a batch, that pass
\* has since written the cursor of its channel, and the next pass has started
C18_ClearedInFlight ==
  \E i \in Invs :
     /\ cleared.count = 1
     /\ cleared.at >= 1
     /\ passes = cleared.at + 1
     /\ call[i].pc = "fetch"
     /\ hist[Channel(i)].runs >= 1
     /\ hist[Channel(i)].batch # <<>>
     /\ lastSyncTimestamps[Channel(i)] # Undefined


\* a text with none of the syntax the converter recognizes: no mention, no
\* emphasis delimiter, no backtick, no encoded blockquote marker
IsPlain(text) ==
  \A k \in 1..Len(text) : text[k] \notin {Mention, Star, BT, EncodedGt}

HasPlaceholder(text) ==
  \E k \in 1..Len(text) : text[k][1] \in {"CB", "IC"}

\* C19: slackMrkdwnToMarkdown returns every text that contains none of the
\* recognized syntax unchanged, and applying it to its own result gives that
\* result again.
C19_PlainTextUnchanged ==
  IsPlain(md.input) =>
    /\ md.applied >= 1 => md.once = md.input
    /\ md.applied = 2 => md.twice = md.once

\* a text with none of the recognized syntax that holds the characters of a
\* code-block placeholder was converted
C19_PlainWithPlaceholderText ==
  /\ IsPlain(md.input)
  /\ HasPlaceholder(md.input)
  /\ md.applied >= 1

\* the fenced code blocks and the inline code spans of a text, in order, by
\* their contents; a fenced block inside an inline span is part of the span's
\* content
CodeSpans(text) ==
  LET fenced == ExtractFenced(text, 1, <<>>, <<>>)
      inline == ExtractInline(fenced.text, 1, <<>>, <<>>)
  IN  [fenced |-> fenced.table,
       inline |-> [k \in 1..Len(inline.table) |->
                     RestoreCodeBlocks(inline.table[k], fenced.table)]]

\* an inline code span of the text has a fenced code block between its
\* backticks
FencedInsideInline(text) ==
  LET fenced == ExtractFenced(text, 1, <<>>, <<>>)
      inline == ExtractInline(fenced.text, 1, <<>>, <<>>)
  IN  \E k \in 1..Len(inline.table) : HasPlaceholder(inline.table[k])

\* C20: in the result of slackMrkdwnToMarkdown every fenced code block and
\* every inline code span has the content it has in the input, and no
\* placeholder is left in the result, also when a fenced block lies between
\* the two backticks of an inline span.
C20_CodeSpansKept ==
  (md.applied >= 1 /\ ~HasPlaceholder(md.input)) =>
    /\ ~HasPlaceholder(md.once)
    /\ CodeSpans(md.once) = CodeSpans(md.input)

\* a text with a fenced block between the backticks of an inline span was
\* converted
C20_FencedInsideInlineConverted ==
  /\ md.applied >= 1
  /\ ~HasPlaceholder(md.input)
  /\ FencedInsideInline(md.input)


\* the grouped note at path holds the identity marker of message ts
MarkerIn(v, path, ts) ==
  path \in DOMAIN v /\ IndexOfMarker(v[path], ts) # 0

\* C21: every appendToGroupedNote call for a message whose identity marker is
\* not in the target file appends the entry, and the marker is in the file
\* afterwards, whatever else the file holds.
C21_AppendedWhenMarkerAbsent ==
  [][\A message \in FmMsgs : \A threadReplies \in FmReplies :
       LET path == GrpPath(FmChannel, DayOf(message.ts))
       IN  (AppendCall(message, threadReplies)
              /\ ~MarkerIn(vault, path, message.ts))
           => MarkerIn(vault', path, message.ts)]_vars

\* a call was turned down for a note that holds the characters of a message
\* id in an entry's text and no marker of that id
C21_IdInTextOnly ==
  \E path \in DOMAIN vault : \E t \in FmTs :
     /\ path = GrpPath(FmChannel, DayOf(t))
     /\ ~MarkerIn(vault, path, t)
     /\ Includes(vault[path], t)
     /\ ops.calls > Cardinality(ops.incorporated) + ops.repeated + ops.updated


\* the thread parent ids of the non-skipped replies of a batch
ReplyParentIds(msgs) ==
  {msgs[k].thread_ts : k \in {j \in 1..Len(msgs) :
      ~ShouldSkipMessage(msgs[j]) /\ msgs[j].thread_ts # 0
        /\ msgs[j].thread_ts # msgs[j].ts}}

\* the ids of the non-skipped top-level messages of a batch
TopLevelIds(msgs) ==
  {msgs[k].ts : k \in {j \in 1..Len(msgs) :
      ~ShouldSkipMessage(msgs[j])
        /\ (msgs[j].thread_ts = 0 \/ msgs[j].thread_ts = msgs[j].ts)}}

\* the elements of a sequence
Range(seq) == {seq[k] : k \in 1..Len(seq)}

\* C22: while the messages of a batch are rendered, the parent ids kept for
\* the retrofit step are the thread parent ids of the non-skipped replies of
\* the whole batch minus the ids of its non-skipped top-level messages (they
\* are there before the first message is rendered), and every retrofit step
\* is for one of these ids.
C22_RetrofitCandidates ==
  [][\A i \in Invs :
       LET candidates == ReplyParentIds(call'[i].allMessages)
                           \ TopLevelIds(call'[i].allMessages)
       IN  /\ (call'[i].pc = "process" /\ ~LoopDone(call'[i])) =>
                Range(call'[i].threadParents) = candidates
           /\ RetrofitStep(i) =>
                /\ Head(call[i].threadParents) \in candidates
                /\ Range(call'[i].threadParents) =
                     Range(call[i].threadParents) \ {Head(call[i].threadParents)}
    ]_vars

\* the retrofit steps were taken for a batch that holds a skipped reply and a
\* non-skipped reply to a parent that is not a top-level message of the batch
C22_MixedBatchRetrofitted ==
  \E i \in Invs :
     /\ call[i].pc = "process"
     /\ LoopDone(call[i])
     /\ call[i].threadParents = <<>>
     /\ ReplyParentIds(call[i].allMessages) \ TopLevelIds(call[i].allMessages) # {}
     /\ \E k \in 1..Len(call[i].allMessages) :
          /\ ShouldSkipMessage(call[i].allMessages[k])
          /\ call[i].allMessages[k].thread_ts \notin {0, call[i].allMessages[k].ts}


\* call i has rendered its batch and retrofitted every candidate: syncChannel
\* is about to set the cursor and return
AboutToFinish(i) ==
  /\ call[i].pc = "process"
  /\ LoopDone(call[i])
  /\ ~syncThreadReplies \/ call[i].threadParents = <<>>

\* the note or entry of message m of channel c holds every reply of m's thread
HasThread(c, m) ==
  \A j \in 1..Len(ThreadRepliesOf(c, m.ts)) :
     HasReply(c, m.ts, ThreadRepliesOf(c, m.ts)[j])

\* C23: with thread sync on, at the end of a channel's processing the note or
\* entry of every non-skipped top-level message of the batch that has replies
\* holds these replies.
C23_RootInBatchHasThread ==
  \A i \in Invs :
     (AboutToFinish(i) /\ syncThreadReplies) =>
       \A k \in 1..Len(call[i].allMessages) :
          LET m == call[i].allMessages[k]
          IN  (/\ Rendered(m)
               /\ ThreadRepliesOf(Channel(i), m.ts) # <<>>
               /\ NoteIn(vault, Channel(i), m.ts))
              => HasThread(Channel(i), m)

\* a bare file upload that has replies was rendered and its channel is about
\* to end
C23_UploadRootWithReplies ==
  \E i \in Invs :
     /\ AboutToFinish(i)
     /\ syncThreadReplies
     /\ \E k \in 1..Len(call[i].allMessages) :
          LET m == call[i].allMessages[k]
          IN  /\ Rendered(m)
              /\ IsStandaloneFileUpload(m)
              /\ ThreadRepliesOf(Channel(i), m.ts) # <<>>
              /\ NoteIn(vault, Channel(i), m.ts)
              /\ call[i].result.errors = <<>>


\* the replies of the thread of ts in channel c, as messages
ReplyMsgs(c, ts) ==
  SelectSeq(remote[c].messages, LAMBDA reply : reply.thread_ts = ts /\ reply.ts # ts)

\* C24: whenever a note is written, on the top-level path or by a retrofit,
\* every user id rendered into it (the author of the message, the users its
\* text mentions, the authors of the replies written with it and the users
\* their texts mention) is in the user map, that is, has been handed to
\* resolveUsers by this engine before.
C24_ResolvedBeforeRendering ==
  [][\A i \in Invs :
       /\ (LoopStep(i) /\ vault' # vault) =>
            \A message \in {call[i].allMessages[call[i].n]} :
                /\ {message.user} \cup MentionsOf(message.text) \subseteq DOMAIN userMap
                /\ HasThread(Channel(i), message)' =>
                     UserIdsOf(ReplyMsgs(Channel(i), message.ts)) \subseteq DOMAIN userMap
       /\ (RetrofitStep(i) /\ vault' # vault) =>
            LET parentTs == Head(call[i].threadParents)
                parent   == ParentOf(Channel(i), parentTs)
            IN  MentionsOf(parent.text)
                  \cup UserIdsOf(ReplyMsgs(Channel(i), parentTs))
                  \subseteq DOMAIN userMap'
    ]_vars

\* a retrofit wrote a thread title that mentions a user who is not in the
\* user map
C24_MentionInRetrofittedTitle ==
  /\ "U2" \notin DOMAIN userMap
  /\ \E path \in DOMAIN vault : \E k \in 1..Len(vault[path]) :
        vault[path][k] \in {HR3(MentionOf("U2")), H4(MentionOf("U2"))}


\* the content a retrofit of the thread of parent in channel c computes under
\* the names in users, and the content the note has; both Null when the
\* retrofit stops before it computes anything
RetrofitContents(c, parent, users) ==
  LET path == IF groupMessagesByDate THEN GrpPath(c, DayOf(parent.ts))
              ELSE IndPath(c, parent.ts)
      text    == MarkdownText(users, parent.text)
      replies == ThreadRepliesOf(c, parent.ts)
  IN  IF path \notin DOMAIN vault
      THEN [old |-> Null, new |-> Null]
      ELSE IF groupMessagesByDate
      THEN IF IndexOfMarker(vault[path], parent.ts) = 0
           THEN [old |-> Null, new |-> Null]
           ELSE [old |-> vault[path],
                 new |-> GroupedNewContent(vault[path], parent.ts, text, replies)]
      ELSE IF ~ParseFrontmatter(vault[path]).ok
           THEN [old |-> Null, new |-> Null]
           ELSE [old |-> vault[path],
                 new |-> IndividualNewContent(vault[path], text, replies)]

\* C25: a retrofit that computes the content the note already has writes
\* nothing and leaves threadsUpdated alone; a retrofit step adds one to
\* threadsUpdated exactly when it modified a note, and adds nothing otherwise.
C25_RetrofitNoOp ==
  [][\A i \in Invs : RetrofitStep(i) =>
       LET before == call[i].result.threadsUpdated
           after  == call'[i].result.threadsUpdated
       IN  /\ \/ after = before + 1 /\ vault' # vault
              \/ after = before /\ vault' = vault
           /\ HasParent(Channel(i), Head(call[i].threadParents)) =>
              \A parent \in {ParentOf(Channel(i), Head(call[i].threadParents))} :
                (/\ ThreadRepliesOf(Channel(i), parent.ts) # <<>>
                 /\ call'[i].result.errors = call[i].result.errors
                 /\ RetrofitContents(Channel(i), parent, userMap').old # Null
                 /\ RetrofitContents(Channel(i), parent, userMap').new
                      = RetrofitContents(Channel(i), parent, userMap').old)
                => vault' = vault /\ after = before
    ]_vars

\* a pass has retrofitted a thread into the content its note already had, and
\* counted nothing
C25_SameThreadAgain ==
  \E i \in Invs :
     /\ call[i].pc = "process"
     /\ LoopDone(call[i])
     /\ call[i].threadParents = <<>>
     /\ call[i].result.threadsUpdated = 0
     /\ call[i].result.errors = <<>>
     /\ \E k \in 1..Len(call[i].allMessages) :
          LET parentTs == call[i].allMessages[k].thread_ts
          IN  /\ parentTs # 0
              /\ parentTs # call[i].allMessages[k].ts
              /\ HasParent(Channel(i), parentTs)
              /\ \A j \in 1..Len(call[i].allMessages) :
                    call[i].allMessages[j].ts # parentTs
              /\ RetrofitContents(Channel(i), ParentOf(Channel(i), parentTs),
                                  userMap).old # Null
              /\ RetrofitContents(Channel(i), ParentOf(Channel(i), parentTs),
                                  userMap).new
                   = RetrofitContents(Channel(i), ParentOf(Channel(i), parentTs),
                                      userMap).old


\* call i resolves the users of its batch: the step from the paging loop to
\* the rendering loop
ResolveStep(i) == call[i].pc = "fetch" /\ call'[i].pc = "process"

\* the age, in hours, of the name the engine holds for user u
NameAge(u) == api.now - api.resolved[u].at

\* C26: when the engine resolves the users of a batch, a user whose name it
\* got at least USER_CACHE_TTL ago is looked up again and the name is of now;
\* a user whose name is younger than that is not looked up.
C26_ExpiredNameLookedUp ==
  [][\A i \in Invs : ResolveStep(i) =>
       \A u \in UserIdsOf(call'[i].allMessages) \cap DOMAIN api.resolved :
          IF NameAge(u) >= USER_CACHE_TTL
          THEN lookups'[u] = lookups[u] + 1 /\ api'.resolved[u].at = api.now
          ELSE lookups'[u] = lookups[u]
    ]_vars

\* a batch is rendered with a name that is at least USER_CACHE_TTL old
C26_OldNameRendered ==
  \E i \in Invs :
     /\ call[i].pc = "process"
     /\ \E u \in UserIdsOf(call[i].allMessages) :
          u \in DOMAIN api.resolved /\ NameAge(u) >= USER_CACHE_TTL

\* C27: every name a batch is rendered with was resolved under the token the
\* client has now.
C27_NamesOfCurrentToken ==
  \A i \in Invs : call[i].pc = "process" =>
     \A u \in UserIdsOf(call[i].allMessages) :
        u \in DOMAIN api.resolved /\ api.resolved[u].token = api.token

\* a batch is rendered with a name that was resolved under another token, by
\* a pass that started after the token was changed
C27_OldTokenNameRendered ==
  \E i \in Invs :
     /\ call[i].pc = "process"
     /\ passes >= 2
     /\ \E u \in UserIdsOf(call[i].allMessages) :
          /\ u \in DOMAIN api.resolved
          /\ api.resolved[u].token # api.token
          /\ lookups[u] = 1


\* the place of channel c in the configuration
Position(c) == CHOOSE k \in 1..Len(ChannelIds) : ChannelIds[k] = c

\* the channel of a note path
ChannelOf(path) == path[2]

WrittenIn(v, c) ==
  IF groupMessagesByDate
  THEN UNION {{<<path, k>> : k \in {j \in 1..Len(v[path]) : v[path][j][1] = "E"}} :
                path \in {q \in DOMAIN v : ChannelOf(q) = c}}
  ELSE {<<path, 1>> : path \in {q \in DOMAIN v :
                                  q[1] = "ind" /\ ChannelOf(q) = c}}

\* C29: when the processing of a channel is about to end, messagesCreated is
\* the number of notes created plus entries appended for the channel since
\* the processing began.
C29_CountIsWritten ==
  \A i \in Invs : AboutToFinish(i) =>
     call[i].result.messagesCreated
       = Cardinality(WrittenIn(vault, Channel(i)))
           - Cardinality(WrittenIn(call[i].vaultAtStart, Channel(i)))

\* a batch with a bare file upload has been processed and more messages were
\* counted than notes or entries written
C29_UploadCountedTwice ==
  \E i \in Invs :
     /\ AboutToFinish(i)
     /\ \E k \in 1..Len(call[i].allMessages) :
          IsStandaloneFileUpload(call[i].allMessages[k])
     /\ call[i].result.messagesCreated
          > Cardinality(WrittenIn(vault, Channel(i)))
              - Cardinality(WrittenIn(call[i].vaultAtStart, Channel(i)))


\* the syncChannel of call i throws in this step: syncAll pushes a result
\* with the error for the channel
ChannelFails(i) ==
  /\ call[i].pc = "fetch"
  /\ Len(call'[i].results) = Len(call[i].results) + 1
  /\ call'[i].results[Len(call'[i].results)].errors # <<>>

\* the channels of call i whose syncChannel threw in this pass
FailedChannels(i) ==
  {call[i].enabledChannels[j] :
     j \in {k \in 1..Len(call[i].results) :
              call[i].results[k].errors = <<<<"Slack API error">>>>}}

\* C30: the step in which a history request of a channel fails changes no
\* cursor and no note: the channel's cursor is the one it had when the pass
\* began, its notes are those it had when its processing began, and the
\* cursors of the other channels are what the pass made them; the result
\* pushed for the channel has its id, the error message and all counts zero.
\* For the rest of the pass the cursor and the notes of the channel stay as
\* they are.
C30_FetchFailureChangesNothing ==
  [][\A i \in Invs :
       /\ ChannelFails(i) =>
            LET ch == Channel(i)
            IN  /\ lastSyncTimestamps' = lastSyncTimestamps
                /\ lastSyncTimestamps'[ch] = call[i].startTs[ch]
                /\ vault' = vault
                /\ NotesOf(vault', ch) = NotesOf(call[i].vaultAtStart, ch)
                /\ call'[i].results[Len(call'[i].results)] =
                     [channelId |-> ch, messagesCreated |-> 0,
                      threadsUpdated |-> 0, filesDownloaded |-> 0,
                      errors |-> <<<<"Slack API error">>>>]
       /\ (Active(i) /\ Active(i)') =>
            \A ch \in FailedChannels(i) :
               /\ lastSyncTimestamps'[ch] = call[i].startTs[ch]
               /\ NotesOf(vault', ch) = NotesOf(vault, ch)
    ]_vars

\* the history request of the second channel failed after the first channel
\* advanced its cursor, and the first channel's cursor is the advanced one
C30_SecondFailsAfterFirstAdvanced ==
  \E i \in Invs :
     /\ Active(i)
     /\ Len(call[i].results) = 2
     /\ ChannelIds[2] \in FailedChannels(i)
     /\ call[i].results[1].messagesCreated > 0
     /\ lastSyncTimestamps[ChannelIds[1]] # call[i].startTs[ChannelIds[1]]


\* C31: a thread retrofit called for a message whose note exists (in grouped
\* mode: holds the message's marker) and has no parsable frontmatter leaves
\* the note with every reply of the thread in it.
C31_MalformedFrontmatterAppends ==
  [][\A message \in ThMsgs : \A threadReplies \in ThRetrofits :
       /\ (/\ UpdateIndividualCall(message, threadReplies)
           /\ IndPath(FmChannel, message.ts) \in DOMAIN vault
           /\ ~ParseFrontmatter(vault[IndPath(FmChannel, message.ts)]).ok)
          => \A k \in 1..Len(threadReplies) :
                Para(threadReplies[k])
                  \in Range(vault'[IndPath(FmChannel, message.ts)])
       /\ (/\ UpdateCall(message, threadReplies)
           /\ GrpPath(FmChannel, DayOf(message.ts)) \in DOMAIN vault
           /\ ~ParseFrontmatter(vault[GrpPath(FmChannel, DayOf(message.ts))]).ok
           /\ MarkerIn(vault, GrpPath(FmChannel, DayOf(message.ts)), message.ts))
          => \A k \in 1..Len(threadReplies) :
                Quote(threadReplies[k])
                  \in Range(vault'[GrpPath(FmChannel, DayOf(message.ts))])
    ]_vars

\* a retrofit was called for an individual note without frontmatter, and the
\* note does not hold the replies it was called with
C31_RetrofitDidNothing ==
  \E k \in 1..Len(ops.roots) :
     /\ ops.roots[k].path \in DOMAIN vault
     /\ ops.roots[k].path[1] = "ind"
     /\ ~ParseFrontmatter(vault[ops.roots[k].path]).ok
     /\ \E j \in 1..Len(ops.roots[k].replies) :
           Para(ops.roots[k].replies[j]) \notin Range(vault[ops.roots[k].path])


\* name.ext, name_1.ext, name_2.ext, ...: the k-th path tried for a file
\* name, the suffix put before the last dot of the name
Candidate(fileName, k) ==
  LET dots == {j \in 1..Len(fileName) : fileName[j] = "."}
      cut  == IF dots = {} THEN Len(fileName) + 1
              ELSE CHOOSE j \in dots : \A i \in dots : i <= j
  IN  IF k = 0 THEN fileName
      ELSE SubSeq(fileName, 1, cut - 1) \o <<"_", Digits[k]>>
             \o SubSeq(fileName, cut, Len(fileName))

\* C32: a saveAttachment call creates exactly one file, at the first path
\* among name.ext, name_1.ext, name_2.ext, ... that did not exist, with the
\* data it was given; every file that existed is unchanged, and the call
\* asks for at most one path more than there are files.
C32_AttachmentNeverOverwrites ==
  [][\A data \in AttData : \A fileName \in AttNames :
       SaveAttachmentCall(data, fileName) =>
         \E k \in 0..Cardinality(DOMAIN vault) :
            LET path == AttPath(FmChannel, Candidate(fileName, k))
            IN  /\ path \notin DOMAIN vault
                /\ \A j \in 0..(k - 1) :
                      AttPath(FmChannel, Candidate(fileName, j)) \in DOMAIN vault
                /\ DOMAIN vault' = DOMAIN vault \cup {path}
                /\ vault'[path] = <<<<"blob", data>>>>
                /\ \A p \in DOMAIN vault : vault'[p] = vault[p]
                /\ SaveAttachment(vault, data, fileName, FmChannel).probes
                     <= Cardinality(DOMAIN vault) + 1
    ]_vars

\* a.b.p was saved three times: a.b.p, a.b_1.p and a.b_2.p exist, with the
\* data of the first call in a.b.p
C32_ThreeOfOneName ==
  /\ \A k \in 0..2 :
        AttPath(FmChannel, Candidate(<<"a", ".", "b", ".", "p">>, k))
          \in DOMAIN vault
  /\ Cardinality(DOMAIN vault) = 3
  /\ \E p, q \in DOMAIN vault : vault[p] # vault[q]


\* the ids of the markers of a grouped note, in the order of the note
MarkerIds(content) ==
  LET ms == SelectSeq(content, LAMBDA tok : tok[1] = "M")
  IN  [k \in 1..Len(ms) |-> ms[k][2]]

\* the ids of the entries that were put into the note at path since the
\* processing of the channel of call i began, in the order of the note
AppendedIds(i, path) ==
  SelectSeq(MarkerIds(vault[path]),
            LAMBDA ts : ~MarkerIn(call[i].vaultAtStart, path, ts))

\* C33: a message is written only when no message with a larger id has been
\* written before it in the processing of the channel, and the entries the
\* processing has put into a grouped note stand in it in ascending order of
\* their ids.
C33_AscendingOrder ==
  [][\A i \in Invs :
       /\ LoopStep(i) =>
            \A t \in Ts :
               call'[i].wrote[t] > call[i].wrote[t] =>
                  \A later \in Ts : later > t => call[i].wrote[later] = 0
       /\ call[i].pc = "process" /\ groupMessagesByDate =>
            \A path \in DOMAIN vault :
               ChannelOf(path) = Channel(i) =>
                  \A a, b \in 1..Len(AppendedIds(i, path)) :
                     a < b => AppendedIds(i, path)[a] < AppendedIds(i, path)[b]
    ]_vars

\* the source returned the larger id first, and the grouped note got the
\* entries of both messages in one pass
C33_DescendingBatchWritten ==
  \E i \in Invs :
     /\ call[i].pc = "process"
     /\ groupMessagesByDate
     /\ Len(remote[Channel(i)].messages) >= 2
     /\ remote[Channel(i)].messages[1].ts > remote[Channel(i)].messages[2].ts
     /\ \E path \in DOMAIN vault :
          ChannelOf(path) = Channel(i) /\ Len(AppendedIds(i, path)) >= 2


\* what the step wrote for the message of id ts: the note of the message, or
\* its entry in the grouped note, from its marker to the end of the note
WrittenFor(v, c, ts) ==
  IF groupMessagesByDate
  THEN SubSeq(v[GrpPath(c, DayOf(ts))],
              IndexOfMarker(v[GrpPath(c, DayOf(ts))], ts),
              Len(v[GrpPath(c, DayOf(ts))]))
  ELSE v[IndPath(c, ts)]

\* C34: a message with a file and an empty text that is written is written
\* as a note or entry that holds the embed of its saved file and, for its
\* text, the caption made of the file titles.
C34_UploadHasEmbedAndCaption ==
  [][\A i \in Invs : LoopStep(i) =>
       \A message \in {call[i].allMessages[call[i].n]} :
          (/\ IsStandaloneFileUpload(message)
           /\ call'[i].wrote[message.ts] > call[i].wrote[message.ts]
           /\ call'[i].result.errors = call[i].result.errors) =>
             /\ \E k \in 1..Len(WrittenFor(vault', Channel(i), message.ts)) :
                   WrittenFor(vault', Channel(i), message.ts)[k][1] = "embed"
             /\ \E k \in 1..Len(WrittenFor(vault', Channel(i), message.ts)) :
                   WrittenFor(vault', Channel(i), message.ts)[k]
                     \in {Text(FileDesc),
                          Entry(UserResolver(userMap, message.user), FileDesc)}
    ]_vars

\* the note of a bare file upload holds the embed and an empty text
C34_UploadNoteWithoutCaption ==
  \E path \in DOMAIN vault :
     /\ path[1] = "ind"
     /\ \E k \in 1..Len(vault[path]) : vault[path][k][1] = "embed"
     /\ \E k \in 1..Len(vault[path]) : vault[path][k] = Text(<<>>)


\* message m of channel c is incorporated: its note exists, or its marker is
\* in the grouped note of its day
Incorporated(c, m) ==
  IF groupMessagesByDate
  THEN MarkerIn(vault, GrpPath(c, DayOf(m.ts)), m.ts)
  ELSE IndPath(c, m.ts) \in DOMAIN vault

\* C35: the loop iteration for a top-level message that is incorporated
\* already leaves the vault as it is, notes and attachment files, and does
\* not add to filesDownloaded.
C35_ReprocessingTouchesNothing ==
  [][\A i \in Invs : LoopStep(i) =>
       \A message \in {call[i].allMessages[call[i].n]} :
          (/\ ~ShouldSkipMessage(message)
           /\ ~IsThreadReply(message)
           /\ Incorporated(Channel(i), message)) =>
             /\ vault' = vault
             /\ call'[i].result.filesDownloaded = call[i].result.filesDownloaded
    ]_vars

\* the file of a message was saved a second time, under the suffixed name,
\* while the channel has the note or entry of one message only
C35_FileSavedAgain ==
  /\ AttPath(ChannelIds[1], Suffixed(FileName, 1)) \in DOMAIN vault
  /\ Cardinality(WrittenIn(vault, ChannelIds[1])) = 1


\* the entry k of the variables whose placeholder the template holds at
\* position i (0: none)
EntryAt(template, entries, i) ==
  IF \E k \in 1..Len(entries) : MatchAt(template, Placeholder(entries[k].key), i)
  THEN CHOOSE k \in 1..Len(entries) :
         MatchAt(template, Placeholder(entries[k].key), i)
  ELSE 0

\* the template with each recognized placeholder replaced by its value,
\* character for character, and every other character as it is
RECURSIVE Verbatim(_, _, _)
Verbatim(template, entries, i) ==
  IF i > Len(template) THEN <<>>
  ELSE IF EntryAt(template, entries, i) # 0
       THEN entries[EntryAt(template, entries, i)].value
              \o Verbatim(template, entries,
                   i + Len(Placeholder(entries[EntryAt(template, entries, i)].key)))
       ELSE <<template[i]>> \o Verbatim(template, entries, i + 1)

\* C36: what applyTemplate returns is the template with every recognized
\* placeholder replaced by exactly its value and everything else unchanged,
\* also for values that hold "$" before another character or the text of a
\* placeholder.
C36_SubstitutionVerbatim ==
  tpl.applied = 1 =>
    tpl.result = Verbatim(tpl.template, MessageVars(tpl.userName, tpl.text), 1)

\* the template {text} was applied to a text that holds "$&"
C36_DollarValueInserted ==
  /\ tpl.applied = 1
  /\ tpl.template = Placeholder(KeyText)
  /\ tpl.text = <<"$", "&">>
  /\ tpl.result = Placeholder(KeyText)


\* the ids of the messages whose processing threw, by the errors of a result
FailedMessages(result) ==
  {e[2] : e \in {x \in Range(result.errors) : x[1] = "Message"}}

\* C37: when the cursor of a channel is written at the end of syncChannel, it
\* is at or after the id of every message of the batch whose processing
\* threw.
C37_FailedMessageAdvancesCursor ==
  [][\A i \in Invs : FinishChannel(i) =>
        \A ts \in FailedMessages(call[i].result) :
           lastSyncTimestamps'[Channel(i)] >= ts
    ]_vars

\* a channel is done whose newest message failed: the cursor stands at the
\* id of the failed message, and no note was written for it
C37_CursorAtFailedMessage ==
  \E i \in Invs : \E k \in 1..Len(call[i].results) :
     /\ ~groupMessagesByDate
     /\ FailedMessages(call[i].results[k]) # {}
     /\ \E ts \in FailedMessages(call[i].results[k]) :
          /\ lastSyncTimestamps[call[i].results[k].channelId] = ts
          /\ IndPath(call[i].results[k].channelId, ts) \notin DOMAIN vault


\* C38: every key of lastSyncTimestamps is the id of a configured channel,
\* whatever the interleaving of passes with Add, Remove channel and Clear
\* Sync History.
C38_CursorsOfConfiguredChannels ==
  \A c \in Chans : lastSyncTimestamps[c] # Undefined => c \in DOMAIN enabled

\* a channel was removed while a pass was processing it, and the pass is over
C38_RemovedWhileProcessed ==
  \E i \in Invs : \E k \in 1..Len(call[i].results) :
     /\ ~Active(i)
     /\ call[i].results[k].channelId \notin DOMAIN enabled
     /\ lastSyncTimestamps[call[i].results[k].channelId] # Undefined


====
